---------------------------- MODULE Spec2Model ----------------------------
(***************************************************************************)
(* Submarine-swap RPC sub-server of lnd-lspd (package submarineswaprpc),   *)
(* together with the swap engine it drives (package submarineswap), the    *)
(* chain, the wallet and the fee estimator it consumes.                    *)
(*                                                                         *)
(* The RPC handlers are translated from the source of the sub-server.     *)
(* The engine package submarineswap, sweep.DetermineFeePerKw and the       *)
(* chain are not among the source files at hand: they are modelled from    *)
(* the design document (sections 3 to 7).                                  *)
(*                                                                         *)
(* Also: the peer notifier (package peernotifier), the peer and backup     *)
(* streaming sub-servers with their stream handlers, and the channel       *)
(* reserve (requiredRemoteChanReserve), all translated from the source.    *)
(* The publish/subscribe broker behind the notifiers (package subscribe)   *)
(* is modelled from the design document.                                   *)
(***************************************************************************)
EXTENDS Integers, Sequences, FiniteSets, TLC

VARIABLES
    height,       \* chain client: height of the best block
    swapIndex,    \* SwapIndex: payment hash -> swap record, NoRecord when absent
    utxos,        \* chain: the outputs paid to swap addresses, in confirmation order
    mempool,      \* chain: settlement transactions broadcast and not yet confirmed
    confirmed,    \* chain: settlement transactions confirmed
    walletAddrs,  \* signing wallet: number of addresses handed out by NewAddress
    calls,        \* per caller: the SubSwapServiceInit request in flight
    putLog,       \* history: per hash, the successful SubSwapServiceInit call
    resp,         \* the RPC call completed last: the operation and its error
    peerNotifier, \* PeerNotifier: its started and stopped words
    ntfnServer,   \* per notifier, its broker: Start and Stop calls received, events sent
    clients,      \* per stream handler, its subscription: state and queue of updates
    servers,      \* per streaming sub-server: started, stopped, closes of quit
    streams,      \* per stream handler: position, notifications sent, error returned
    lifecycle,    \* per caller: the Start or Stop call whose body is still to run
    reserve       \* the call of requiredRemoteChanReserve completed last

swapVars == <<height, swapIndex, utxos, mempool, confirmed, walletAddrs, calls,
              putLog, resp>>
notifyVars == <<peerNotifier, ntfnServer, clients, servers, streams, lifecycle>>
vars == <<height, swapIndex, utxos, mempool, confirmed, walletAddrs, calls,
          putLog, resp, peerNotifier, ntfnServer, clients, servers, streams,
          lifecycle, reserve>>

---------------------------------------------------------------------------
(* Bounds of the model. *)

MaxHeight == 1
MaxUtxos == 2
MaxPool == 2
MaxAddrs == 1

---------------------------------------------------------------------------
(* Input domains. *)

Procs == {1, 2}
Preimages == {1, 2}
PrivKeys == {1, 2}
ServicePrivKeys == {3}
SatPerByteIn == {0, 1}
TargetConfIn == {6}
Amounts == {300, 100000}

\* The commitment of a preimage (SHA-256 in the engine): injective on the
\* preimages of the model and never the preimage itself.
Hash(p) == 2 * p + 9

\* The public key of a private key.
PubKeyOf(k) == 100 + k

Hashes == {Hash(p) : p \in Preimages}
ClientPubKeys == {PubKeyOf(k) : k \in PrivKeys}

---------------------------------------------------------------------------
(* Addresses and their text form. *)

NoScript == <<0, 0, 0, 0>>
NoAddr == [kind |-> "none", prog |-> NoScript]
UnknownAddr == [kind |-> "p2wsh", prog |-> NoScript]

\* addr.String(): the text of an address.
AddrString(a) == <<"bc1", a.kind, a.prog>>

GarbageString == <<"xx", "none", NoScript>>
NoString == <<"", "none", NoScript>>

\* btcutil.DecodeAddress: the address a text denotes, NoAddr with an error
\* when the text is not an address of the active network.
DecodeAddress(s) ==
    IF s[1] = "bc1" /\ s[2] \in {"p2wsh", "p2wkh"}
    THEN [err |-> "", addr |-> [kind |-> s[2], prog |-> s[3]]]
    ELSE [err |-> "DecodeError", addr |-> NoAddr]

\* The n-th address of the signing wallet.
WalletAddr(n) == [kind |-> "p2wkh", prog |-> <<n, 0, 0, 0>>]

---------------------------------------------------------------------------
(* ScriptBuilder. *)

\* A hash that is not the commitment of a 32-byte preimage stands for a byte
\* string of another length; 0 stands for the empty byte string.
ShortHashes == {7}
HashLen(hash) == IF hash = 0 THEN 0 ELSE IF hash \in ShortHashes THEN 20 ELSE 32

\* A byte string that is no point of the curve.
BadPubKeys == {1}
ValidPubKey(k) == k > 100

\* DeriveSwap: the witness script of the swap and its pay-to-script address;
\* InvalidParameters unless the hash has 32 bytes, both keys are valid and
\* the lock height is positive and beyond the caller's current height.
DeriveSwap(hash, clientPubKey, servicePubKey, lockHeight, currentHeight) ==
    LET script == <<hash, clientPubKey, servicePubKey, lockHeight>>
    IN  IF \/ HashLen(hash) # 32
           \/ ~ValidPubKey(clientPubKey)
           \/ ~ValidPubKey(servicePubKey)
           \/ lockHeight <= 0
           \/ lockHeight <= currentHeight
        THEN [err |-> "InvalidParameters", script |-> NoScript, address |-> NoAddr]
        ELSE [err |-> "", script |-> script,
              address |-> [kind |-> "p2wsh", prog |-> script]]

---------------------------------------------------------------------------
(* SwapIndex. *)

NoRecord == [hash |-> 0, clientPubKey |-> 0, servicePubKey |-> 0,
             lockHeight |-> 0, address |-> NoAddr, creationHeight |-> 0]

\* Get: the record stored for a hash, NotFound when there is none.
Get(hash) ==
    IF hash \in DOMAIN swapIndex /\ swapIndex[hash] # NoRecord
    THEN [err |-> "", record |-> swapIndex[hash]]
    ELSE [err |-> "NotFound", record |-> NoRecord]

\* Put: the index after inserting the record; DuplicateSwap and the index
\* as it was when the hash already has a record.
Put(index, record) ==
    IF index[record.hash] # NoRecord
    THEN [err |-> "DuplicateSwap", index |-> index]
    ELSE [err |-> "", index |-> [index EXCEPT ![record.hash] = record]]

\* The record that owns an address, NotFound when no swap has it.
RecordOfAddress(addr) ==
    LET owners == {h \in DOMAIN swapIndex :
                     swapIndex[h] # NoRecord /\ swapIndex[h].address = addr}
    IN  IF owners = {}
        THEN [err |-> "NotFound", record |-> NoRecord]
        ELSE [err |-> "", record |-> swapIndex[CHOOSE h \in owners : TRUE]]

---------------------------------------------------------------------------
(* UtxoScanner over the chain. *)

\* An output is spent once a confirmed transaction has it among its inputs.
Spent(i) == \E t \in confirmed : i \in t.inputs

\* Scan: the unspent outputs paying the address that were confirmed at or
\* after fromHeight, in confirmation order.
Scan(addr, fromHeight) ==
    LET F[i \in 0..Len(utxos)] ==
            IF i = 0 THEN <<>>
            ELSE IF /\ utxos[i].addr = addr
                    /\ ~Spent(i)
                    /\ utxos[i].height >= fromHeight
                 THEN Append(F[i - 1], [id |-> i, amount |-> utxos[i].amount,
                                        height |-> utxos[i].height])
                 ELSE F[i - 1]
    IN  F[Len(utxos)]

\* The sum of the amounts of a list of outputs.
RECURSIVE TotalAmount(_)
TotalAmount(us) ==
    IF us = <<>> THEN 0 ELSE Head(us).amount + TotalAmount(Tail(us))

---------------------------------------------------------------------------
(* FeePolicy. *)

\* The conversion without the factor of 1000 from bytes to kilobytes.
FeePerKWeight_NoKilo(satPerByte) == satPerByte \div 4

\* chainfee.SatPerKVByte(satPerByte * 1000).FeePerKWeight(): the rate per
\* 1000 weight units of a rate per byte.
FeePerKWeight(satPerByte) == (satPerByte * 1000) \div 4

\* The answers of the fee estimator: a rate per 1000 weight units, or 0 when
\* it has none.
EstimatorAnswers == {0, 250}

\* sweep.DetermineFeePerKw (ResolveFeePerWeight): the explicit rate when one
\* is supplied, else the estimator's answer for the confirmation target.
DetermineFeePerKw(estimate, confTarget, feeRate) ==
    IF feeRate > 0 THEN [err |-> "", rate |-> feeRate]
    ELSE IF estimate = 0 THEN [err |-> "FeeEstimationUnavailable", rate |-> 0]
    ELSE [err |-> "", rate |-> estimate]

---------------------------------------------------------------------------
(* SettlementBuilder. *)

NoTx == [kind |-> "none", inputs |-> {}, out |-> 0, fee |-> 0,
         dest |-> NoAddr, hash |-> 0, lock |-> 0, preimage |-> 0]

\* The weight of a settlement transaction with n inputs.
TxWeight(n) == 400 + 800 * n

\* The fee with the product taken in a word of 20 bits.
FeeForWeight_Wraps(feePerKw, weight) == ((feePerKw * weight) % 1048576) \div 1000

\* fee = feePerWeight x weight(tx), the rate being per 1000 weight units.
FeeForWeight(feePerKw, weight) == (feePerKw * weight) \div 1000

\* The input selection, fee and output that the two builders share: all
\* unspent outputs at the swap address, InsufficientFunds unless a positive
\* output remains after the fee.
Settle(kind, rec, preimage, destination, feePerKw) ==
    LET ins == Scan(rec.address, rec.creationHeight)
        total == TotalAmount(ins)
        fee == FeeForWeight(feePerKw, TxWeight(Len(ins)))
    IN  IF total - fee <= 0
        THEN [err |-> "InsufficientFunds", tx |-> NoTx]
        ELSE [err |-> "",
              tx |-> [kind |-> kind,
                      inputs |-> {ins[j].id : j \in 1..Len(ins)},
                      out |-> total - fee, fee |-> fee, dest |-> destination,
                      hash |-> rec.hash, lock |-> rec.lockHeight,
                      preimage |-> preimage]]

\* BuildRedeem: the preimage is checked against the record first.
BuildRedeem(rec, preimage, destination, feePerKw) ==
    IF Hash(preimage) # rec.hash
    THEN [err |-> "InvalidPreimage", tx |-> NoTx]
    ELSE Settle("redeem", rec, preimage, destination, feePerKw)

\* BuildRefund: the lock height is checked against the current height first.
BuildRefund(rec, destination, feePerKw, currentHeight) ==
    IF currentHeight < rec.lockHeight
    THEN [err |-> "LockNotExpired", tx |-> NoTx]
    ELSE Settle("refund", rec, 0, destination, feePerKw)

---------------------------------------------------------------------------
(* The entry points of the engine that the RPC handlers call. *)

\* The lock height the service gives a swap created at currentHeight.
NewLockHeight(currentHeight) == currentHeight + 1

\* NewSubmarineSwap putting the record whatever DeriveSwap answered.
NewSubmarineSwap_PutsUnchecked(pubkey, hash, serviceKey) ==
    LET lockHeight == NewLockHeight(height)
        servicePubKey == PubKeyOf(serviceKey)
        d == DeriveSwap(hash, pubkey, servicePubKey, lockHeight, height)
        rec == [hash |-> hash, clientPubKey |-> pubkey,
                servicePubKey |-> servicePubKey, lockHeight |-> lockHeight,
                address |-> d.address, creationHeight |-> height]
        put == Put(swapIndex, rec)
    IN  [err |-> put.err, index |-> put.index, addr |-> d.address,
         script |-> d.script, servicePubKey |-> servicePubKey,
         lockHeight |-> lockHeight, record |-> rec]

\* submarineswap.NewSubmarineSwap: derives the swap of (hash, pubkey) with a
\* key of the service and the lock height, and puts its record.
NewSubmarineSwap(pubkey, hash, serviceKey) ==
    LET lockHeight == NewLockHeight(height)
        servicePubKey == PubKeyOf(serviceKey)
        d == DeriveSwap(hash, pubkey, servicePubKey, lockHeight, height)
        rec == [hash |-> hash, clientPubKey |-> pubkey,
                servicePubKey |-> servicePubKey, lockHeight |-> lockHeight,
                address |-> d.address, creationHeight |-> height]
        put == IF d.err = "" THEN Put(swapIndex, rec)
               ELSE [err |-> d.err, index |-> swapIndex]
    IN  [err |-> put.err, index |-> put.index, addr |-> d.address,
         script |-> d.script, servicePubKey |-> servicePubKey,
         lockHeight |-> lockHeight, record |-> rec]

\* submarineswap.WatchSubmarineSwap: the client derives the swap again from
\* its preimage and key and the service's key and lock height.  The swap
\* exists already, so no current height bounds the lock height.
WatchSubmarineSwap(preimage, key, servicePubkey, lockHeight) ==
    DeriveSwap(Hash(preimage), PubKeyOf(key), servicePubkey, lockHeight, 0)

\* submarineswap.AddressFromHash: address, creation height and lock height
\* of the swap of a hash.
AddressFromHash(hash) ==
    LET g == Get(hash)
    IN  [err |-> g.err, addr |-> g.record.address,
         creationHeight |-> g.record.creationHeight,
         lockHeight |-> g.record.lockHeight]

\* submarineswap.CreationHeight: creation height and lock height of the swap
\* that owns an address.
CreationHeight(addr) ==
    LET g == RecordOfAddress(addr)
    IN  [err |-> g.err, creationHeight |-> g.record.creationHeight,
         lockHeight |-> g.record.lockHeight]

\* submarineswap.GetUtxos: the scan of the address a text denotes.
GetUtxos(start, address) ==
    LET d == DecodeAddress(address)
    IN  IF d.err # "" THEN [err |-> d.err, utxos |-> <<>>]
        ELSE [err |-> "", utxos |-> Scan(d.addr, start)]

\* submarineswap.Redeem: the swap is the one the preimage commits to; a
\* preimage that commits to no swap is an invalid preimage.
Redeem(preimage, redeemAddress, feePerKw) ==
    LET g == Get(Hash(preimage))
    IN  IF g.err # "" THEN [err |-> "InvalidPreimage", tx |-> NoTx]
        ELSE BuildRedeem(g.record, preimage, redeemAddress, feePerKw)

\* submarineswap.RedeemFees: the fee of the redeem transaction of a swap.
RedeemFees(hash, feePerKw) ==
    LET g == Get(hash)
        b == Settle("redeem", g.record, 0, NoAddr, feePerKw)
    IN  IF g.err # "" THEN [err |-> g.err, amount |-> 0]
        ELSE [err |-> b.err, amount |-> b.tx.fee]

\* submarineswap.RefundTx: the refund of the swap that owns the address, at
\* the current height of the chain.
RefundTx(address, refundAddress, feePerKw) ==
    LET g == RecordOfAddress(address)
        b == BuildRefund(g.record, refundAddress, feePerKw, height)
    IN  IF g.err # "" THEN [err |-> g.err, tx |-> NoTx, fees |-> 0]
        ELSE [err |-> b.err, tx |-> b.tx, fees |-> b.tx.fee]

---------------------------------------------------------------------------
(* The RPC handlers of the sub-server.  Each is the response it returns,     *)
(* with the state it leaves behind when it changes any, as a function of    *)
(* the request and of the state it runs in.                                 *)

\* A response with every field at its zero value.
Response(op) ==
    [op |-> op, err |-> "", preimage |-> 0, hash |-> 0, key |-> 0,
     pubkey |-> 0, address |-> NoString, script |-> NoScript,
     lockHeight |-> 0, amount |-> 0, utxos |-> <<>>, tx |-> NoTx, fees |-> 0]

\* return nil, err
Failure(op, err) == [Response(op) EXCEPT !.err = err]

NoResponse == Response("none")

\* SubSwapClientInit, for the preimage and key the engine drew.
SubSwapClientInit(preimage, key) ==
    [Response("ClientInit") EXCEPT !.preimage = preimage,
                                   !.hash = Hash(preimage),
                                   !.key = key,
                                   !.pubkey = PubKeyOf(key)]

\* SubSwapServiceInit without the check of the error of NewSubmarineSwap.
SubSwapServiceInit_NoErrCheck(inPubkey, inHash, serviceKey) ==
    LET r == NewSubmarineSwap(inPubkey, inHash, serviceKey)
    IN  [resp |-> [Response("ServiceInit") EXCEPT
                       !.address = AddrString(r.addr),
                       !.pubkey = r.servicePubKey,
                       !.lockHeight = r.lockHeight],
         index |-> r.index]

\* SubSwapServiceInit answering with the key of the request in place of the
\* key of the service.
SubSwapServiceInit_EchoesPubkey(inPubkey, inHash, serviceKey) ==
    LET r == NewSubmarineSwap(inPubkey, inHash, serviceKey)
    IN  IF r.err # ""
        THEN [resp |-> Failure("ServiceInit", r.err), index |-> r.index]
        ELSE [resp |-> [Response("ServiceInit") EXCEPT
                            !.address = AddrString(r.addr),
                            !.pubkey = inPubkey,
                            !.lockHeight = r.lockHeight],
              index |-> r.index]

\* SubSwapServiceInit, for the key the wallet manager gave the engine.
SubSwapServiceInit(inPubkey, inHash, serviceKey) ==
    LET r == NewSubmarineSwap(inPubkey, inHash, serviceKey)
    IN  IF r.err # ""
        THEN [resp |-> Failure("ServiceInit", r.err), index |-> r.index]
        ELSE [resp |-> [Response("ServiceInit") EXCEPT
                            !.address = AddrString(r.addr),
                            !.pubkey = r.servicePubKey,
                            !.lockHeight = r.lockHeight],
              index |-> r.index]

\* SubSwapClientWatch without the check of the error of WatchSubmarineSwap.
SubSwapClientWatch_NoErrCheck(inPreimage, inKey, inServicePubkey, inLockHeight) ==
    LET r == WatchSubmarineSwap(inPreimage, inKey, inServicePubkey, inLockHeight)
    IN  [Response("ClientWatch") EXCEPT !.address = AddrString(r.address),
                                        !.script = r.script]

\* SubSwapClientWatch.
SubSwapClientWatch(inPreimage, inKey, inServicePubkey, inLockHeight) ==
    LET r == WatchSubmarineSwap(inPreimage, inKey, inServicePubkey, inLockHeight)
    IN  IF r.err # "" THEN Failure("ClientWatch", r.err)
        ELSE [Response("ClientWatch") EXCEPT !.address = AddrString(r.address),
                                             !.script = r.script]

\* UnspentAmount without the check of the error of AddressFromHash.
UnspentAmount_NoErrCheck(inAddress, inHash) ==
    LET byHash == AddressFromHash(inHash)
        dec == DecodeAddress(inAddress)
        byAddr == CreationHeight(dec.addr)
        address == IF HashLen(inHash) > 0 THEN AddrString(byHash.addr) ELSE inAddress
        start == IF HashLen(inHash) > 0 THEN byHash.creationHeight
                 ELSE byAddr.creationHeight
        lockHeight == IF HashLen(inHash) > 0 THEN byHash.lockHeight
                      ELSE byAddr.lockHeight
        scan == GetUtxos(start, address)
    IN  IF HashLen(inHash) = 0 /\ dec.err # ""
        THEN Failure("UnspentAmount", dec.err)
        ELSE IF scan.err # ""
        THEN Failure("UnspentAmount", scan.err)
        ELSE [Response("UnspentAmount") EXCEPT !.amount = TotalAmount(scan.utxos),
                                               !.lockHeight = lockHeight,
                                               !.utxos = scan.utxos]

\* UnspentAmount scanning from the lock height in place of the height of
\* creation.
UnspentAmount_StartsAtLockHeight(inAddress, inHash) ==
    LET byHash == AddressFromHash(inHash)
        dec == DecodeAddress(inAddress)
        byAddr == CreationHeight(dec.addr)
        address == IF HashLen(inHash) > 0 THEN AddrString(byHash.addr) ELSE inAddress
        start == IF HashLen(inHash) > 0 THEN byHash.creationHeight
                 ELSE byAddr.creationHeight
        lockHeight == IF HashLen(inHash) > 0 THEN byHash.lockHeight
                      ELSE byAddr.lockHeight
        scan == GetUtxos(lockHeight, address)
    IN  IF HashLen(inHash) > 0 /\ byHash.err # ""
        THEN Failure("UnspentAmount", byHash.err)
        ELSE IF HashLen(inHash) = 0 /\ dec.err # ""
        THEN Failure("UnspentAmount", dec.err)
        ELSE IF scan.err # ""
        THEN Failure("UnspentAmount", scan.err)
        ELSE [Response("UnspentAmount") EXCEPT !.amount = TotalAmount(scan.utxos),
                                               !.lockHeight = lockHeight,
                                               !.utxos = scan.utxos]

\* UnspentAmount with the amount of each output assigned to the total in
\* place of added to it.
UnspentAmount_LastAmount(inAddress, inHash) ==
    LET byHash == AddressFromHash(inHash)
        dec == DecodeAddress(inAddress)
        byAddr == CreationHeight(dec.addr)
        address == IF HashLen(inHash) > 0 THEN AddrString(byHash.addr) ELSE inAddress
        start == IF HashLen(inHash) > 0 THEN byHash.creationHeight
                 ELSE byAddr.creationHeight
        lockHeight == IF HashLen(inHash) > 0 THEN byHash.lockHeight
                      ELSE byAddr.lockHeight
        scan == GetUtxos(start, address)
    IN  IF HashLen(inHash) > 0 /\ byHash.err # ""
        THEN Failure("UnspentAmount", byHash.err)
        ELSE IF HashLen(inHash) = 0 /\ dec.err # ""
        THEN Failure("UnspentAmount", dec.err)
        ELSE IF scan.err # ""
        THEN Failure("UnspentAmount", scan.err)
        ELSE [Response("UnspentAmount") EXCEPT !.amount = IF scan.utxos = <<>> THEN 0
                                                         ELSE scan.utxos[Len(scan.utxos)].amount,
                                               !.lockHeight = lockHeight,
                                               !.utxos = scan.utxos]

\* UnspentAmount without the lock height of the record when the request has
\* an address.
UnspentAmount_AddressLockZero(inAddress, inHash) ==
    LET byHash == AddressFromHash(inHash)
        dec == DecodeAddress(inAddress)
        byAddr == CreationHeight(dec.addr)
        address == IF HashLen(inHash) > 0 THEN AddrString(byHash.addr) ELSE inAddress
        start == IF HashLen(inHash) > 0 THEN byHash.creationHeight
                 ELSE byAddr.creationHeight
        lockHeight == IF HashLen(inHash) > 0 THEN byHash.lockHeight
                      ELSE 0
        scan == GetUtxos(start, address)
    IN  IF HashLen(inHash) > 0 /\ byHash.err # ""
        THEN Failure("UnspentAmount", byHash.err)
        ELSE IF HashLen(inHash) = 0 /\ dec.err # ""
        THEN Failure("UnspentAmount", dec.err)
        ELSE IF scan.err # ""
        THEN Failure("UnspentAmount", scan.err)
        ELSE [Response("UnspentAmount") EXCEPT !.amount = TotalAmount(scan.utxos),
                                               !.lockHeight = lockHeight,
                                               !.utxos = scan.utxos]

\* UnspentAmount: by hash when the request has one, else by address.  The
\* error of CreationHeight is not looked at: start and lock height are then
\* the zero values it returned.
UnspentAmount(inAddress, inHash) ==
    LET byHash == AddressFromHash(inHash)
        dec == DecodeAddress(inAddress)
        byAddr == CreationHeight(dec.addr)
        address == IF HashLen(inHash) > 0 THEN AddrString(byHash.addr) ELSE inAddress
        start == IF HashLen(inHash) > 0 THEN byHash.creationHeight
                 ELSE byAddr.creationHeight
        lockHeight == IF HashLen(inHash) > 0 THEN byHash.lockHeight
                      ELSE byAddr.lockHeight
        scan == GetUtxos(start, address)
    IN  IF HashLen(inHash) > 0 /\ byHash.err # ""
        THEN Failure("UnspentAmount", byHash.err)
        ELSE IF HashLen(inHash) = 0 /\ dec.err # ""
        THEN Failure("UnspentAmount", dec.err)
        ELSE IF scan.err # ""
        THEN Failure("UnspentAmount", scan.err)
        ELSE [Response("UnspentAmount") EXCEPT !.amount = TotalAmount(scan.utxos),
                                               !.lockHeight = lockHeight,
                                               !.utxos = scan.utxos]

\* SubSwapServiceRedeemFees at the rate of the request in place of the rate
\* resolved.
SubSwapServiceRedeemFees_RawRate(inHash, inSatPerByte, inTargetConf, estimate) ==
    LET satPerKw == FeePerKWeight(inSatPerByte)
        f == DetermineFeePerKw(estimate, inTargetConf, satPerKw)
        r == RedeemFees(inHash, satPerKw)
    IN  IF f.err # "" THEN Failure("RedeemFees", f.err)
        ELSE IF r.err # "" THEN Failure("RedeemFees", r.err)
        ELSE [Response("RedeemFees") EXCEPT !.amount = r.amount]

\* SubSwapServiceRedeemFees, for the estimator's answer.
SubSwapServiceRedeemFees(inHash, inSatPerByte, inTargetConf, estimate) ==
    LET satPerKw == FeePerKWeight(inSatPerByte)
        f == DetermineFeePerKw(estimate, inTargetConf, satPerKw)
        r == RedeemFees(inHash, f.rate)
    IN  IF f.err # "" THEN Failure("RedeemFees", f.err)
        ELSE IF r.err # "" THEN Failure("RedeemFees", r.err)
        ELSE [Response("RedeemFees") EXCEPT !.amount = r.amount]

\* SubSwapServiceRedeem without the check of the error of Redeem.
SubSwapServiceRedeem_NoErrCheck(inPreimage, inSatPerByte, inTargetConf, walletOk, estimate) ==
    LET redeemAddress == WalletAddr(walletAddrs + 1)
        satPerKw == FeePerKWeight(inSatPerByte)
        f == DetermineFeePerKw(estimate, inTargetConf, satPerKw)
        r == Redeem(inPreimage, redeemAddress, f.rate)
    IN  IF ~walletOk
        THEN [resp |-> Failure("Redeem", "WalletError"), addrs |-> walletAddrs]
        ELSE IF f.err # ""
        THEN [resp |-> Failure("Redeem", f.err), addrs |-> walletAddrs + 1]
        ELSE [resp |-> [Response("Redeem") EXCEPT !.tx = r.tx],
              addrs |-> walletAddrs + 1]

\* SubSwapServiceRedeem, for the wallet's and the estimator's answers.  The
\* wallet hands out the redeem address before anything else is done.
SubSwapServiceRedeem(inPreimage, inSatPerByte, inTargetConf, walletOk, estimate) ==
    LET redeemAddress == WalletAddr(walletAddrs + 1)
        satPerKw == FeePerKWeight(inSatPerByte)
        f == DetermineFeePerKw(estimate, inTargetConf, satPerKw)
        r == Redeem(inPreimage, redeemAddress, f.rate)
    IN  IF ~walletOk
        THEN [resp |-> Failure("Redeem", "WalletError"), addrs |-> walletAddrs]
        ELSE IF f.err # ""
        THEN [resp |-> Failure("Redeem", f.err), addrs |-> walletAddrs + 1]
        ELSE IF r.err # ""
        THEN [resp |-> Failure("Redeem", r.err), addrs |-> walletAddrs + 1]
        ELSE [resp |-> [Response("Redeem") EXCEPT !.tx = r.tx],
              addrs |-> walletAddrs + 1]

\* SubSwapClientRefund without the check of the error of RefundTx.
SubSwapClientRefund_NoErrCheck(inAddress, inRefundAddress, inSatPerByte, inTargetConf, estimate) ==
    LET address == DecodeAddress(inAddress)
        refundAddress == DecodeAddress(inRefundAddress)
        satPerKw == FeePerKWeight(inSatPerByte)
        f == DetermineFeePerKw(estimate, inTargetConf, satPerKw)
        r == RefundTx(address.addr, refundAddress.addr, f.rate)
    IN  IF address.err # "" THEN Failure("Refund", address.err)
        ELSE IF refundAddress.err # "" THEN Failure("Refund", refundAddress.err)
        ELSE IF f.err # "" THEN Failure("Refund", f.err)
        ELSE [Response("Refund") EXCEPT !.tx = r.tx, !.fees = r.fees]

\* SubSwapClientRefund handing the swap address to RefundTx as the refund
\* address too.
SubSwapClientRefund_PaysSwapAddress(inAddress, inRefundAddress, inSatPerByte, inTargetConf, estimate) ==
    LET address == DecodeAddress(inAddress)
        refundAddress == DecodeAddress(inRefundAddress)
        satPerKw == FeePerKWeight(inSatPerByte)
        f == DetermineFeePerKw(estimate, inTargetConf, satPerKw)
        r == RefundTx(address.addr, address.addr, f.rate)
    IN  IF address.err # "" THEN Failure("Refund", address.err)
        ELSE IF refundAddress.err # "" THEN Failure("Refund", refundAddress.err)
        ELSE IF f.err # "" THEN Failure("Refund", f.err)
        ELSE IF r.err # "" THEN Failure("Refund", r.err)
        ELSE [Response("Refund") EXCEPT !.tx = r.tx, !.fees = r.fees]

\* SubSwapClientRefund, for the estimator's answer.
SubSwapClientRefund(inAddress, inRefundAddress, inSatPerByte, inTargetConf, estimate) ==
    LET address == DecodeAddress(inAddress)
        refundAddress == DecodeAddress(inRefundAddress)
        satPerKw == FeePerKWeight(inSatPerByte)
        f == DetermineFeePerKw(estimate, inTargetConf, satPerKw)
        r == RefundTx(address.addr, refundAddress.addr, f.rate)
    IN  IF address.err # "" THEN Failure("Refund", address.err)
        ELSE IF refundAddress.err # "" THEN Failure("Refund", refundAddress.err)
        ELSE IF f.err # "" THEN Failure("Refund", f.err)
        ELSE IF r.err # "" THEN Failure("Refund", r.err)
        ELSE [Response("Refund") EXCEPT !.tx = r.tx, !.fees = r.fees]

---------------------------------------------------------------------------
(* The requests the callers make. *)

OtherPreimages == {3}
HashInputs == Hashes \cup ShortHashes
PubKeyInputs == {PubKeyOf(1)} \cup BadPubKeys
ServicePubKeys == {PubKeyOf(k) : k \in ServicePrivKeys}
LockHeightInputs == 0..NewLockHeight(MaxHeight)

Stored == {h \in Hashes : swapIndex[h] # NoRecord}
ClientDest == [kind |-> "p2wkh", prog |-> <<9, 0, 0, 0>>]
AddressInputs ==
    {AddrString(swapIndex[h].address) : h \in Stored}
        \cup {AddrString(UnknownAddr), GarbageString}
RefundAddressInputs == {AddrString(ClientDest), GarbageString}

Idle == [st |-> "idle", pubkey |-> 0, hash |-> 0, err |-> ""]

\* The entry of the history for a hash no call has succeeded for.
NoPut == [resp |-> NoResponse, pubkey |-> 0, height |-> 0]

\* What is kept of the call completed last.
Outcome(r) == [op |-> r.op, err |-> r.err]

---------------------------------------------------------------------------
(* The notifiers, the streaming sub-servers and their stream handlers.      *)

MaxEvents == 2
MaxBackupEvents == 1

\* The two notifiers and the sub-server that streams the events of each.
Notifiers == {"peer", "backup"}
SubServers == {"peerrpc", "backuprpc"}

\* The stream handlers: two calls of SubscribePeers and one of
\* SubscribeBackupEvents.
PeerStreams == {"p1", "p2"}
BackupStreams == {"b1"}
Streams == PeerStreams \cup BackupStreams
NotifierOf(h) == IF h \in PeerStreams THEN "peer" ELSE "backup"
SubServerOf(h) == IF h \in PeerStreams THEN "peerrpc" ELSE "backuprpc"

\* PeerConnectionChangedEvent, and the values its fields take.
PeerConnectionChangedEvent(pubKey, address, connected) ==
    [type |-> "PeerConnectionChangedEvent", PeerAddress |-> address,
     PeerConnected |-> connected, PeerPubKey |-> pubKey]
PeerEvents ==
    {PeerConnectionChangedEvent(1, 11, TRUE), PeerConnectionChangedEvent(2, 12, FALSE)}

\* The event of the backup notifier, and an update of a type that
\* SubscribePeers does not know.
BackupEvent == [type |-> "BackupEvent"]
OtherEvent == [type |-> "Other"]

\* subscribe.NewServer: a broker that has not been started.
NewServer == [starts |-> 0, stops |-> 0, sent |-> <<>>]

\* A broker delivers from its first Start until its first Stop.
Running(n) == ntfnServer[n].starts > 0 /\ ntfnServer[n].stops = 0
TornDown(n) == ntfnServer[n].stops > 0

\* A stream handler without a subscription, and a handler not called yet.
NoClient == [state |-> "none", updates |-> <<>>, from |-> 0, until |-> 0]
NotCalled == [pc |-> "idle", sent |-> <<>>, err |-> ""]

\* The quit channel of a subscription is closed when the subscription is
\* cancelled and when its broker is torn down.
ClientQuit(h) == clients[h].state = "cancelled" \/ TornDown(NotifierOf(h))

\* SendUpdate that waits until every subscriber has read what it was sent.
SendUpdate_WaitsForReaders(n, e) ==
    /\ \A h \in Streams : NotifierOf(h) = n => clients[h].updates = <<>>
    /\ ntfnServer' = [ntfnServer EXCEPT ![n].sent = Append(@, e)]
    /\ clients' = [h \in Streams |->
                     IF NotifierOf(h) = n /\ clients[h].state = "active"
                     THEN [clients[h] EXCEPT !.updates = Append(@, e)]
                     ELSE clients[h]]

\* subscribe.Server.SendUpdate: the event is appended to the queue of every
\* subscription the broker holds, whatever the length of the queue.
SendUpdate(n, e) ==
    /\ ntfnServer' = [ntfnServer EXCEPT ![n].sent = Append(@, e)]
    /\ clients' = [h \in Streams |->
                     IF NotifierOf(h) = n /\ clients[h].state = "active"
                     THEN [clients[h] EXCEPT !.updates = Append(@, e)]
                     ELSE clients[h]]

\* subscribe.Client.Cancel: the broker drops the queue of the subscription.
\* The record keeps how many events had been sent by then.
Cancel(h) ==
    [state |-> "cancelled", updates |-> <<>>, from |-> clients[h].from,
     until |-> Len(ntfnServer[NotifierOf(h)].sent)]

\* subscribe.Server.Subscribe: a new subscription with an empty queue, that
\* receives the events sent from now on.
Subscribe(h) ==
    [state |-> "active", updates |-> <<>>,
     from |-> Len(ntfnServer[NotifierOf(h)].sent), until |-> 0]

ProcIdle(p) == lifecycle[p] = "idle"

\* PeerNotifier.Start: the compare-and-swap of started, then, for the one
\* caller that swapped, the Start of the broker.
PeerNotifierStart(p) ==
    /\ ProcIdle(p)
    /\ IF peerNotifier.started = 0
       THEN /\ peerNotifier' = [peerNotifier EXCEPT !.started = 1]
            /\ lifecycle' = [lifecycle EXCEPT ![p] = "PeerNotifier.Start"]
       ELSE UNCHANGED <<peerNotifier, lifecycle>>
    /\ UNCHANGED <<swapVars, ntfnServer, clients, servers, streams, reserve>>

NtfnServerStart(p) ==
    /\ lifecycle[p] = "PeerNotifier.Start"
    /\ ntfnServer' = [ntfnServer EXCEPT !["peer"].starts = @ + 1]
    /\ lifecycle' = [lifecycle EXCEPT ![p] = "idle"]
    /\ UNCHANGED <<swapVars, peerNotifier, clients, servers, streams, reserve>>

\* PeerNotifier.Stop: the compare-and-swap of stopped, then the Stop of the
\* broker.
PeerNotifierStop(p) ==
    /\ ProcIdle(p)
    /\ IF peerNotifier.stopped = 0
       THEN /\ peerNotifier' = [peerNotifier EXCEPT !.stopped = 1]
            /\ lifecycle' = [lifecycle EXCEPT ![p] = "PeerNotifier.Stop"]
       ELSE UNCHANGED <<peerNotifier, lifecycle>>
    /\ UNCHANGED <<swapVars, ntfnServer, clients, servers, streams, reserve>>

NtfnServerStop(p) ==
    /\ lifecycle[p] = "PeerNotifier.Stop"
    /\ ntfnServer' = [ntfnServer EXCEPT !["peer"].stops = @ + 1]
    /\ lifecycle' = [lifecycle EXCEPT ![p] = "idle"]
    /\ UNCHANGED <<swapVars, peerNotifier, clients, servers, streams, reserve>>

\* The backup notifier is started and stopped by the daemon.
BackupNotifierStart ==
    /\ ntfnServer["backup"].starts = 0
    /\ ntfnServer' = [ntfnServer EXCEPT !["backup"].starts = 1]
    /\ UNCHANGED <<swapVars, peerNotifier, clients, servers, streams, lifecycle,
                   reserve>>

BackupNotifierStop ==
    /\ ntfnServer["backup"].stops = 0
    /\ ntfnServer' = [ntfnServer EXCEPT !["backup"].stops = 1]
    /\ UNCHANGED <<swapVars, peerNotifier, clients, servers, streams, lifecycle,
                   reserve>>

\* Server.Start of a streaming sub-server: the compare-and-swap of started.
ServerStart(srv, p) ==
    /\ ProcIdle(p)
    /\ IF servers[srv].started = 0
       THEN servers' = [servers EXCEPT ![srv].started = 1]
       ELSE UNCHANGED servers
    /\ UNCHANGED <<swapVars, peerNotifier, ntfnServer, clients, streams,
                   lifecycle, reserve>>

\* Server.Stop that goes on to close(s.quit) whatever the word stopped holds.
ServerStop_ClosesAgain(srv, p) ==
    /\ ProcIdle(p)
    /\ servers' = [servers EXCEPT ![srv].stopped = 1]
    /\ lifecycle' = [lifecycle EXCEPT ![p] = srv]
    /\ UNCHANGED <<swapVars, peerNotifier, ntfnServer, clients, streams, reserve>>

\* Server.Stop of a streaming sub-server: the compare-and-swap of stopped,
\* then, for the one caller that swapped, close(s.quit).
ServerStop(srv, p) ==
    /\ ProcIdle(p)
    /\ IF servers[srv].stopped = 0
       THEN /\ servers' = [servers EXCEPT ![srv].stopped = 1]
            /\ lifecycle' = [lifecycle EXCEPT ![p] = srv]
       ELSE UNCHANGED <<servers, lifecycle>>
    /\ UNCHANGED <<swapVars, peerNotifier, ntfnServer, clients, streams, reserve>>

CloseQuit(srv, p) ==
    /\ lifecycle[p] = srv
    /\ servers' = [servers EXCEPT ![srv].quit = @ + 1]
    /\ lifecycle' = [lifecycle EXCEPT ![p] = "idle"]
    /\ UNCHANGED <<swapVars, peerNotifier, ntfnServer, clients, streams, reserve>>

\* NotifyPeerConnectionChangedEvent: the event is sent to the broker; the
\* error of a broker torn down is logged and the event is dropped.
NotifyPeerConnectionChangedEvent(pubKey, address, connected) ==
    /\ Len(ntfnServer["peer"].sent) < MaxEvents
    /\ Running("peer") \/ TornDown("peer")
    /\ IF Running("peer")
       THEN SendUpdate("peer", PeerConnectionChangedEvent(pubKey, address, connected))
       ELSE UNCHANGED <<ntfnServer, clients>>
    /\ UNCHANGED <<swapVars, peerNotifier, servers, streams, lifecycle, reserve>>

\* The backup notifier sends its event.
NotifyBackupEvent ==
    /\ Len(ntfnServer["backup"].sent) < MaxBackupEvents
    /\ Running("backup")
    /\ SendUpdate("backup", BackupEvent)
    /\ UNCHANGED <<swapVars, peerNotifier, servers, streams, lifecycle, reserve>>

\* A PeerNotification with the address in the place of the key.
PeerNotification_SwapsFields(event) ==
    [PubKey |-> event.PeerAddress, Address |-> event.PeerPubKey,
     Connected |-> event.PeerConnected]

\* The PeerNotification that SubscribePeers makes of an event.
PeerNotification(event) ==
    [PubKey |-> event.PeerPubKey, Address |-> event.PeerAddress,
     Connected |-> event.PeerConnected]

\* The case of an update that goes on after a failed Send.
SubscribePeersUpdate_IgnoresSendError(e, sendOk) ==
    IF e.type = "PeerConnectionChangedEvent"
    THEN IF sendOk THEN [err |-> "", out |-> <<PeerNotification(e)>>]
         ELSE [err |-> "", out |-> <<>>]
    ELSE [err |-> "UnexpectedEvent", out |-> <<>>]

\* The case of an update in the select of SubscribePeers: the notification
\* sent, if any, and the error the handler returns, if any.
SubscribePeersUpdate(e, sendOk) ==
    IF e.type = "PeerConnectionChangedEvent"
    THEN IF sendOk THEN [err |-> "", out |-> <<PeerNotification(e)>>]
         ELSE [err |-> "SendError", out |-> <<>>]
    ELSE [err |-> "UnexpectedEvent", out |-> <<>>]

\* The case of an update in the select of SubscribeBackupEvents.
SubscribeBackupEventsUpdate(e, sendOk) ==
    IF sendOk THEN [err |-> "", out |-> <<[type |-> "BackupEventUpdate"]>>]
    ELSE [err |-> "SendError", out |-> <<>>]

\* The return of a stream handler without the deferred Cancel.
Return_KeepsSubscription(h, err) ==
    /\ streams' = [streams EXCEPT ![h].pc = "returned", ![h].err = err]
    /\ UNCHANGED clients

\* The return of a stream handler: the deferred Cancel runs.
Return(h, err) ==
    /\ streams' = [streams EXCEPT ![h].pc = "returned", ![h].err = err]
    /\ clients' = [clients EXCEPT ![h] = Cancel(h)]

\* The step of a stream handler for the update at the head of its queue.
Receive(h, r) ==
    IF r.err = ""
    THEN /\ streams' = [streams EXCEPT ![h].sent = @ \o r.out]
         /\ clients' = [clients EXCEPT ![h].updates = Tail(@)]
    ELSE Return(h, r.err)

\* SubscribePeers, from the call to the select: the subscription is made,
\* and when that fails the handler returns the error.
CallSubscribePeers(h) ==
    /\ h \in PeerStreams
    /\ streams[h].pc = "idle"
    /\ Running("peer") \/ TornDown("peer")
    /\ IF TornDown("peer")
       THEN /\ streams' = [streams EXCEPT ![h].pc = "returned",
                                          ![h].err = "ServerShuttingDown"]
            /\ UNCHANGED clients
       ELSE /\ streams' = [streams EXCEPT ![h].pc = "select"]
            /\ clients' = [clients EXCEPT ![h] = Subscribe(h)]
    /\ UNCHANGED <<swapVars, peerNotifier, ntfnServer, servers, lifecycle, reserve>>

\* SubscribePeers, select: an update of the subscription.
SubscribePeersRecv(h, sendOk) ==
    /\ h \in PeerStreams
    /\ streams[h].pc = "select"
    /\ clients[h].updates # <<>>
    /\ Receive(h, SubscribePeersUpdate(Head(clients[h].updates), sendOk))
    /\ UNCHANGED <<swapVars, peerNotifier, ntfnServer, servers, lifecycle, reserve>>

\* SubscribePeers, select: the quit channel of the subscription.
SubscribePeersQuit(h) ==
    /\ h \in PeerStreams
    /\ streams[h].pc = "select"
    /\ ClientQuit(h)
    /\ Return(h, "nil")
    /\ UNCHANGED <<swapVars, peerNotifier, ntfnServer, servers, lifecycle, reserve>>

\* SubscribeBackupEvents, from the call to the select.
CallSubscribeBackupEvents(h) ==
    /\ h \in BackupStreams
    /\ streams[h].pc = "idle"
    /\ Running("backup") \/ TornDown("backup")
    /\ IF TornDown("backup")
       THEN /\ streams' = [streams EXCEPT ![h].pc = "returned",
                                          ![h].err = "ServerShuttingDown"]
            /\ UNCHANGED clients
       ELSE /\ streams' = [streams EXCEPT ![h].pc = "select"]
            /\ clients' = [clients EXCEPT ![h] = Subscribe(h)]
    /\ UNCHANGED <<swapVars, peerNotifier, ntfnServer, servers, lifecycle, reserve>>

\* SubscribeBackupEvents, select: an update of the subscription.
SubscribeBackupEventsRecv(h, sendOk) ==
    /\ h \in BackupStreams
    /\ streams[h].pc = "select"
    /\ clients[h].updates # <<>>
    /\ Receive(h, SubscribeBackupEventsUpdate(Head(clients[h].updates), sendOk))
    /\ UNCHANGED <<swapVars, peerNotifier, ntfnServer, servers, lifecycle, reserve>>

\* SubscribeBackupEvents, select: the quit channel of the sub-server.
SubscribeBackupEventsQuit(h) ==
    /\ h \in BackupStreams
    /\ streams[h].pc = "select"
    /\ servers["backuprpc"].quit > 0
    /\ Return(h, "nil")
    /\ UNCHANGED <<swapVars, peerNotifier, ntfnServer, servers, lifecycle, reserve>>

---------------------------------------------------------------------------
(* requiredRemoteChanReserve. *)

\* Integers of any size, as starlark has them, and the 64-bit amounts: a
\* sign and the magnitude in limbs of nine decimal digits, the most
\* significant first.
Limb == 1000000000
BigOf(n) == [neg |-> n < 0, limbs |-> <<IF n < 0 THEN 0 - n ELSE n>>]

\* 2^63 - 1 and 2^63, the largest magnitudes of a positive and of a negative
\* int64.
MaxInt64 == <<9, 223372036, 854775807>>
MaxNegInt64 == <<9, 223372036, 854775808>>

RECURSIVE DigitsOf(_, _)
\* The decimal digits of a number, to a width when the width is not zero.
DigitsOf(n, width) ==
    IF width = 0
    THEN IF n < 10 THEN <<n>> ELSE DigitsOf(n \div 10, 0) \o <<n % 10>>
    ELSE IF width = 1 THEN <<n % 10>>
    ELSE DigitsOf(n \div 10, width - 1) \o <<n % 10>>

RECURSIVE DigitsOfLimbs(_)
DigitsOfLimbs(limbs) ==
    IF limbs = <<>> THEN <<>>
    ELSE DigitsOf(Head(limbs), 9) \o DigitsOfLimbs(Tail(limbs))

\* value.String() of a starlark int: the sign and the decimal digits.
String(v) ==
    [neg |-> v.neg,
     digits |-> DigitsOf(Head(v.limbs), 0) \o DigitsOfLimbs(Tail(v.limbs))]

RECURSIVE ValueOf(_)
\* The number that at most nine digits denote.
ValueOf(digits) ==
    IF digits = <<>> THEN 0
    ELSE 10 * ValueOf(SubSeq(digits, 1, Len(digits) - 1)) + digits[Len(digits)]

RECURSIVE LimbsOf(_)
LimbsOf(digits) ==
    IF Len(digits) <= 9 THEN <<ValueOf(digits)>>
    ELSE LimbsOf(SubSeq(digits, 1, Len(digits) - 9))
           \o <<ValueOf(SubSeq(digits, Len(digits) - 8, Len(digits)))>>

RECURSIVE LimbsLeq(_, _)
\* Whether a magnitude is at most another one of the same number of limbs.
LimbsLeq(a, b) ==
    IF a = <<>> THEN TRUE
    ELSE IF Head(a) # Head(b) THEN Head(a) < Head(b)
    ELSE LimbsLeq(Tail(a), Tail(b))

\* strconv.ParseInt(s, 10, 64): the value of the digits, and a range error
\* with the nearest int64 when the value does not fit.
ParseInt(str) ==
    LET limbs == LimbsOf(str.digits)
        most == IF str.neg THEN MaxNegInt64 ELSE MaxInt64
    IN  IF str.digits = <<>> THEN [err |-> "ErrSyntax", i |-> BigOf(0)]
        ELSE IF Len(limbs) < 3 \/ (Len(limbs) = 3 /\ LimbsLeq(limbs, most))
        THEN [err |-> "", i |-> [neg |-> str.neg, limbs |-> limbs]]
        ELSE [err |-> "ErrRange", i |-> [neg |-> str.neg, limbs |-> most]]

\* The reserve scripts of the configuration, and the builds.
ChanReserveScripts ==
    {"", "chanAmt // 100", "-chanAmt", "chanAmt +", "'none'", "2 ** 63 - 1",
     "2 ** 63", "-(2 ** 63)", "-(2 ** 63) - 1", "10 ** 27"}
Builds == {"default", "dynamic"}
ChanAmts == {0, 20000, 16777215}
DefaultReserves == {354, 200, 167772}

\* starlark.Eval of a script with chanAmt bound: an error, or a value with
\* its type.
Eval(script, chanAmt) ==
    CASE script = "chanAmt // 100" ->
           [err |-> "", type |-> "int", int |-> BigOf(chanAmt \div 100)]
      [] script = "-chanAmt" ->
           [err |-> "", type |-> "int", int |-> BigOf(0 - chanAmt)]
      [] script = "'none'" ->
           [err |-> "", type |-> "string", int |-> BigOf(0)]
      [] script = "2 ** 63 - 1" ->
           [err |-> "", type |-> "int", int |-> [neg |-> FALSE, limbs |-> MaxInt64]]
      [] script = "2 ** 63" ->
           [err |-> "", type |-> "int", int |-> [neg |-> FALSE, limbs |-> MaxNegInt64]]
      [] script = "-(2 ** 63)" ->
           [err |-> "", type |-> "int", int |-> [neg |-> TRUE, limbs |-> MaxNegInt64]]
      [] script = "-(2 ** 63) - 1" ->
           [err |-> "", type |-> "int",
            int |-> [neg |-> TRUE, limbs |-> <<9, 223372036, 854775809>>]]
      [] script = "10 ** 27" ->
           [err |-> "", type |-> "int", int |-> [neg |-> FALSE, limbs |-> <<1, 0, 0, 0>>]]
      [] OTHER -> [err |-> "EvalError", type |-> "", int |-> BigOf(0)]

\* requiredRemoteChanReserve of the dynamic build that takes what ParseInt
\* returned whatever its error.
requiredRemoteChanReserve_KeepsOverflow(script, chanAmt, defaultReserve) ==
    LET value == Eval(script, chanAmt)
        parsed == ParseInt(String(value.int))
    IN  IF script = "" THEN [reserve |-> BigOf(defaultReserve), err |-> ""]
        ELSE IF value.err # ""
        THEN [reserve |-> BigOf(defaultReserve), err |-> value.err]
        ELSE IF value.type = "int"
        THEN [reserve |-> parsed.i, err |-> parsed.err]
        ELSE [reserve |-> BigOf(defaultReserve), err |-> ""]

\* requiredRemoteChanReserve of the dynamic build.
requiredRemoteChanReserve(script, chanAmt, defaultReserve) ==
    LET value == Eval(script, chanAmt)
        parsed == ParseInt(String(value.int))
    IN  IF script = "" THEN [reserve |-> BigOf(defaultReserve), err |-> ""]
        ELSE IF value.err # ""
        THEN [reserve |-> BigOf(defaultReserve), err |-> value.err]
        ELSE IF value.type = "int" /\ parsed.err = ""
        THEN [reserve |-> parsed.i, err |-> ""]
        ELSE IF value.type = "int"
        THEN [reserve |-> BigOf(defaultReserve), err |-> parsed.err]
        ELSE [reserve |-> BigOf(defaultReserve), err |-> ""]

\* requiredRemoteChanReserve of the default build.
requiredRemoteChanReserveDefault(script, chanAmt, defaultReserve) ==
    [reserve |-> BigOf(defaultReserve), err |-> ""]

\* The function of a build.
RequiredRemoteChanReserveOf(build, script, chanAmt, defaultReserve) ==
    IF build = "dynamic"
    THEN requiredRemoteChanReserve(script, chanAmt, defaultReserve)
    ELSE requiredRemoteChanReserveDefault(script, chanAmt, defaultReserve)

\* No call completed yet.
NoReserve == [build |-> "", script |-> "", chanAmt |-> 0, defaultReserve |-> 0,
              reserve |-> BigOf(0), err |-> ""]

\* A channel is opened: the reserve the remote party must keep is computed.
CallRequiredRemoteChanReserve(build, script, chanAmt, defaultReserve) ==
    /\ LET r == RequiredRemoteChanReserveOf(build, script, chanAmt, defaultReserve)
       IN  reserve' = [build |-> build, script |-> script, chanAmt |-> chanAmt,
                       defaultReserve |-> defaultReserve, reserve |-> r.reserve,
                       err |-> r.err]
    /\ UNCHANGED <<swapVars, notifyVars>>

---------------------------------------------------------------------------
(* The state after construction. *)

Init ==
    /\ height = 0
    /\ swapIndex = [h \in HashInputs |-> NoRecord]
    /\ utxos = <<>>
    /\ mempool = {}
    /\ confirmed = {}
    /\ walletAddrs = 0
    /\ calls = [p \in Procs |-> Idle]
    /\ putLog = [h \in Hashes |-> NoPut]
    /\ resp = Outcome(NoResponse)
    /\ peerNotifier = [started |-> 0, stopped |-> 0]
    /\ ntfnServer = [n \in Notifiers |-> NewServer]
    /\ clients = [h \in Streams |-> NoClient]
    /\ servers = [srv \in SubServers |-> [started |-> 0, stopped |-> 0, quit |-> 0]]
    /\ streams = [h \in Streams |-> NotCalled]
    /\ lifecycle = [p \in Procs |-> "idle"]
    /\ reserve = NoReserve

---------------------------------------------------------------------------
(* The chain. *)

\* A block is mined.
Tick ==
    /\ height < MaxHeight
    /\ height' = height + 1
    /\ UNCHANGED <<swapIndex, utxos, mempool, confirmed, walletAddrs, calls,
                   putLog, resp>>

\* A depositor's payment to the address of a swap is confirmed.
Deposit(h, amount) ==
    /\ Len(utxos) < MaxUtxos
    /\ swapIndex[h] # NoRecord
    /\ utxos' = Append(utxos, [addr |-> swapIndex[h].address,
                               amount |-> amount, height |-> height])
    /\ UNCHANGED <<height, swapIndex, mempool, confirmed, walletAddrs, calls,
                   putLog, resp>>

\* The consensus rules on a settlement transaction: its inputs are unspent,
\* a refund is final only from the lock height on, a redeem reveals the
\* preimage of the hash.
ChainAccepts(t) ==
    /\ \A i \in t.inputs : ~Spent(i)
    /\ t.kind = "refund" => height >= t.lock
    /\ t.kind = "redeem" => Hash(t.preimage) = t.hash

\* The pools that can follow a call that returned the transaction: the
\* caller keeps it, or relays it and the chain takes it.
Relayed(tx) ==
    IF /\ tx # NoTx
       /\ Cardinality(mempool \cup {tx}) <= MaxPool
       /\ ChainAccepts(tx)
    THEN {mempool, mempool \cup {tx}}
    ELSE {mempool}

\* A relayed transaction is confirmed; those that spend one of its inputs
\* leave the pool.
Confirm(t) ==
    /\ t \in mempool
    /\ ChainAccepts(t)
    /\ confirmed' = confirmed \cup {t}
    /\ mempool' = {u \in mempool : u.inputs \cap t.inputs = {}}
    /\ UNCHANGED <<height, swapIndex, utxos, walletAddrs, calls, putLog, resp>>

---------------------------------------------------------------------------
(* The RPC calls. *)

CallSubSwapClientInit(preimage, key) ==
    /\ resp' = Outcome(SubSwapClientInit(preimage, key))
    /\ UNCHANGED <<height, swapIndex, utxos, mempool, confirmed, walletAddrs,
                   calls, putLog>>

CallSubSwapServiceInit(inPubkey, inHash, serviceKey) ==
    /\ LET r == SubSwapServiceInit(inPubkey, inHash, serviceKey)
       IN  /\ swapIndex' = r.index
           /\ resp' = Outcome(r.resp)
           /\ putLog' = IF r.resp.err = ""
                        THEN [putLog EXCEPT ![inHash] =
                                 [resp |-> r.resp, pubkey |-> inPubkey,
                                  height |-> height]]
                        ELSE putLog
    /\ UNCHANGED <<height, utxos, mempool, confirmed, walletAddrs>>

\* SubSwapClientWatch calling NewSubmarineSwap, as SubSwapServiceInit does,
\* for the hash of the preimage and the public key of the key.
CallSubSwapClientWatch_Stores(inPreimage, inKey, inServicePubkey, inLockHeight) ==
    /\ LET r == NewSubmarineSwap(PubKeyOf(inKey), Hash(inPreimage),
                                 CHOOSE k \in ServicePrivKeys : TRUE)
       IN  /\ swapIndex' = r.index
           /\ resp' = Outcome(IF r.err # "" THEN Failure("ClientWatch", r.err)
                              ELSE Response("ClientWatch"))
    /\ UNCHANGED <<height, utxos, mempool, confirmed, walletAddrs, calls,
                   putLog>>

CallSubSwapClientWatch(inPreimage, inKey, inServicePubkey, inLockHeight) ==
    /\ resp' = Outcome(SubSwapClientWatch(inPreimage, inKey, inServicePubkey,
                                          inLockHeight))
    /\ UNCHANGED <<height, swapIndex, utxos, mempool, confirmed, walletAddrs,
                   calls, putLog>>

CallUnspentAmount(inAddress, inHash) ==
    /\ resp' = Outcome(UnspentAmount(inAddress, inHash))
    /\ UNCHANGED <<height, swapIndex, utxos, mempool, confirmed, walletAddrs,
                   calls, putLog>>

CallSubSwapServiceRedeemFees(inHash, inSatPerByte, inTargetConf, estimate) ==
    /\ resp' = Outcome(SubSwapServiceRedeemFees(inHash, inSatPerByte,
                                                inTargetConf, estimate))
    /\ UNCHANGED <<height, swapIndex, utxos, mempool, confirmed, walletAddrs,
                   calls, putLog>>

CallSubSwapServiceRedeem(inPreimage, inSatPerByte, inTargetConf, walletOk, estimate) ==
    /\ walletAddrs < MaxAddrs
    /\ LET r == SubSwapServiceRedeem(inPreimage, inSatPerByte, inTargetConf,
                                     walletOk, estimate)
       IN  /\ resp' = Outcome(r.resp)
           /\ walletAddrs' = r.addrs
           /\ mempool' \in Relayed(r.resp.tx)
    /\ UNCHANGED <<height, swapIndex, utxos, confirmed, calls, putLog>>

CallSubSwapClientRefund(inAddress, inRefundAddress, inSatPerByte, inTargetConf, estimate) ==
    /\ LET r == SubSwapClientRefund(inAddress, inRefundAddress, inSatPerByte,
                                    inTargetConf, estimate)
       IN  /\ resp' = Outcome(r)
           /\ mempool' \in Relayed(r.tx)
    /\ UNCHANGED <<height, swapIndex, utxos, confirmed, walletAddrs, calls,
                   putLog>>

---------------------------------------------------------------------------
(* The specification: the chain and the RPC calls, one call at a time. *)

Next ==
    \/ Tick
         /\ UNCHANGED <<notifyVars, reserve>>
    \/ \E h \in Hashes, amount \in Amounts : Deposit(h, amount)
         /\ UNCHANGED <<notifyVars, reserve>>
    \/ \E t \in mempool : Confirm(t)
         /\ UNCHANGED <<notifyVars, reserve>>
    \/ \E preimage \in Preimages, key \in PrivKeys :
         CallSubSwapClientInit(preimage, key)
         /\ UNCHANGED <<notifyVars, reserve>>
    \/ \E inPubkey \in PubKeyInputs, inHash \in HashInputs,
          serviceKey \in ServicePrivKeys :
         CallSubSwapServiceInit(inPubkey, inHash, serviceKey) /\ UNCHANGED calls
         /\ UNCHANGED <<notifyVars, reserve>>
    \/ \E inPreimage \in Preimages, inKey \in PrivKeys,
          inServicePubkey \in ServicePubKeys \cup BadPubKeys,
          inLockHeight \in LockHeightInputs :
         CallSubSwapClientWatch(inPreimage, inKey, inServicePubkey, inLockHeight)
         /\ UNCHANGED <<notifyVars, reserve>>
    \/ \E inAddress \in AddressInputs, inHash \in {0} \cup HashInputs :
         CallUnspentAmount(inAddress, inHash)
         /\ UNCHANGED <<notifyVars, reserve>>
    \/ \E inHash \in HashInputs, inSatPerByte \in SatPerByteIn,
          inTargetConf \in TargetConfIn, estimate \in EstimatorAnswers :
         CallSubSwapServiceRedeemFees(inHash, inSatPerByte, inTargetConf, estimate)
         /\ UNCHANGED <<notifyVars, reserve>>
    \/ \E inPreimage \in Preimages \cup OtherPreimages,
          inSatPerByte \in SatPerByteIn, inTargetConf \in TargetConfIn,
          walletOk \in BOOLEAN, estimate \in EstimatorAnswers :
         CallSubSwapServiceRedeem(inPreimage, inSatPerByte, inTargetConf,
                                  walletOk, estimate)
         /\ UNCHANGED <<notifyVars, reserve>>
    \/ \E inAddress \in AddressInputs, inRefundAddress \in RefundAddressInputs,
          inSatPerByte \in SatPerByteIn, inTargetConf \in TargetConfIn,
          estimate \in EstimatorAnswers :
         CallSubSwapClientRefund(inAddress, inRefundAddress, inSatPerByte,
                                 inTargetConf, estimate)
         /\ UNCHANGED <<notifyVars, reserve>>

Spec == Init /\ [][Next]_vars

---------------------------------------------------------------------------
(* The specification of concurrent SubSwapServiceInit calls: a request is   *)
(* in flight from its arrival until the handler has run, and its response   *)
(* stays with the caller until the caller takes it.                         *)

\* A caller's request arrives.
ArriveSubSwapServiceInit(p, inPubkey, inHash) ==
    /\ calls[p] = Idle
    /\ calls' = [calls EXCEPT ![p] = [st |-> "inflight", pubkey |-> inPubkey,
                                      hash |-> inHash, err |-> ""]]
    /\ UNCHANGED <<height, swapIndex, utxos, mempool, confirmed, walletAddrs,
                   putLog, resp>>

\* The caller abandons the request before the handler has run.
CancelSubSwapServiceInit(p) ==
    /\ calls[p].st = "inflight"
    /\ calls' = [calls EXCEPT ![p] = Idle]
    /\ UNCHANGED <<height, swapIndex, utxos, mempool, confirmed, walletAddrs,
                   putLog, resp>>

\* The handler runs for the request and returns.
RunSubSwapServiceInit(p, serviceKey) ==
    /\ calls[p].st = "inflight"
    /\ CallSubSwapServiceInit(calls[p].pubkey, calls[p].hash, serviceKey)
    /\ calls' = [calls EXCEPT ![p].st = "done", ![p].err = resp'.err]

\* The caller takes the response.
ReturnSubSwapServiceInit(p) ==
    /\ calls[p].st = "done"
    /\ calls' = [calls EXCEPT ![p] = Idle]
    /\ UNCHANGED <<height, swapIndex, utxos, mempool, confirmed, walletAddrs,
                   putLog, resp>>

NextPut ==
    \/ Tick
         /\ UNCHANGED <<notifyVars, reserve>>
    \/ \E p \in Procs, inPubkey \in ClientPubKeys \cup BadPubKeys,
          inHash \in HashInputs :
         ArriveSubSwapServiceInit(p, inPubkey, inHash)
         /\ UNCHANGED <<notifyVars, reserve>>
    \/ \E p \in Procs : CancelSubSwapServiceInit(p)
         /\ UNCHANGED <<notifyVars, reserve>>
    \/ \E p \in Procs, serviceKey \in ServicePrivKeys :
         RunSubSwapServiceInit(p, serviceKey)
         /\ UNCHANGED <<notifyVars, reserve>>
    \/ \E p \in Procs : ReturnSubSwapServiceInit(p)
         /\ UNCHANGED <<notifyVars, reserve>>

SpecPut == Init /\ [][NextPut]_vars

---------------------------------------------------------------------------
(* The specification of start and stop: any number of calls of Start and    *)
(* Stop of the notifier and of the streaming sub-servers, by two callers,   *)
(* interleaved between the compare-and-swap and the body of each call.      *)

NextLifecycle ==
    \/ \E p \in Procs : PeerNotifierStart(p)
    \/ \E p \in Procs : NtfnServerStart(p)
    \/ \E p \in Procs : PeerNotifierStop(p)
    \/ \E p \in Procs : NtfnServerStop(p)
    \/ \E srv \in SubServers, p \in Procs : ServerStart(srv, p)
    \/ \E srv \in SubServers, p \in Procs : ServerStop(srv, p)
    \/ \E srv \in SubServers, p \in Procs : CloseQuit(srv, p)

SpecLifecycle == Init /\ [][NextLifecycle]_vars

---------------------------------------------------------------------------
(* The specification of the streams: the daemon starts and stops the        *)
(* notifiers and stops the sub-servers, events are sent, and the stream     *)
(* handlers run.                                                            *)

\* The caller of Start and Stop here.
Daemon == {1}

NextNotify ==
    \/ \E p \in Daemon : PeerNotifierStart(p)
    \/ \E p \in Daemon : NtfnServerStart(p)
    \/ \E p \in Daemon : PeerNotifierStop(p)
    \/ \E p \in Daemon : NtfnServerStop(p)
    \/ BackupNotifierStart
    \/ BackupNotifierStop
    \/ \E srv \in SubServers, p \in Daemon : ServerStop(srv, p)
    \/ \E srv \in SubServers, p \in Daemon : CloseQuit(srv, p)
    \/ \E e \in PeerEvents :
         NotifyPeerConnectionChangedEvent(e.PeerPubKey, e.PeerAddress, e.PeerConnected)
    \/ NotifyBackupEvent
    \/ \E h \in PeerStreams : CallSubscribePeers(h)
    \/ \E h \in PeerStreams, sendOk \in BOOLEAN : SubscribePeersRecv(h, sendOk)
    \/ \E h \in PeerStreams : SubscribePeersQuit(h)
    \/ \E h \in BackupStreams : CallSubscribeBackupEvents(h)
    \/ \E h \in BackupStreams, sendOk \in BOOLEAN : SubscribeBackupEventsRecv(h, sendOk)
    \/ \E h \in BackupStreams : SubscribeBackupEventsQuit(h)

SpecNotify == Init /\ [][NextNotify]_vars

\* The same with the scheduling of the program: a stream handler whose
\* select has a ready case takes a case, a ready case of a select is taken
\* before long, and a caller of Stop that has swapped goes on to close.
FairNotify ==
    /\ \A h \in PeerStreams :
         /\ WF_vars(\E sendOk \in BOOLEAN : SubscribePeersRecv(h, sendOk))
         /\ WF_vars(SubscribePeersQuit(h))
    /\ \A h \in BackupStreams :
         /\ WF_vars(\E sendOk \in BOOLEAN : SubscribeBackupEventsRecv(h, sendOk))
         /\ WF_vars(SubscribeBackupEventsQuit(h))
    /\ \A srv \in SubServers, p \in Daemon : WF_vars(CloseQuit(srv, p))

SpecNotifyLive == SpecNotify /\ FairNotify

---------------------------------------------------------------------------
(* The specification of the channel reserve: channels are opened under one  *)
(* build or the other, with each script, amount and default.                *)

NextReserve ==
    \E build \in Builds, script \in ChanReserveScripts, chanAmt \in ChanAmts,
       defaultReserve \in DefaultReserves :
       CallRequiredRemoteChanReserve(build, script, chanAmt, defaultReserve)

SpecReserve == Init /\ [][NextReserve]_vars

---------------------------------------------------------------------------
(* The requests the properties range over: those the callers make and more. *)

SatPerByteAll == {0, 1, 2}
TargetConfAll == {0, 6}
PreimagesAll == Preimages \cup OtherPreimages
FeeRates == {FeePerKWeight(b) : b \in SatPerByteAll \ {0}} \cup (EstimatorAnswers \ {0})

\* The unspent deposit of a record and what is left of it after the fee of
\* a settlement at the rate.
Deposited(rec) == Scan(rec.address, rec.creationHeight)
Remainder(rec, feePerKw) ==
    TotalAmount(Deposited(rec))
        - FeeForWeight(feePerKw, TxWeight(Len(Deposited(rec))))

---------------------------------------------------------------------------
(* Refund and the lock height. *)

\* C1: a refund fails with LockNotExpired whenever the height of the chain
\* is below the lock height of the record, and succeeds whenever the height
\* has reached the lock height and the deposit leaves a positive output
\* after the fee; no refund transaction is ever returned, relayed or
\* confirmed while the chain is below the lock height it carries.
C1_RefundGatedByLockHeight ==
    /\ \A h \in Stored, currentHeight \in 0..MaxHeight + 1, rate \in FeeRates :
         LET rec == swapIndex[h]
             b == BuildRefund(rec, ClientDest, rate, currentHeight)
         IN  /\ currentHeight < rec.lockHeight
                  => b.err = "LockNotExpired" /\ b.tx = NoTx
             /\ currentHeight >= rec.lockHeight /\ Remainder(rec, rate) > 0
                  => b.err = "" /\ b.tx.kind = "refund" /\ b.tx.hash = h
    /\ \A h \in Stored, inSatPerByte \in SatPerByteAll,
          inTargetConf \in TargetConfAll, estimate \in EstimatorAnswers :
         LET rec == swapIndex[h]
             f == DetermineFeePerKw(estimate, inTargetConf,
                                    FeePerKWeight(inSatPerByte))
             r == SubSwapClientRefund(AddrString(rec.address),
                                      AddrString(ClientDest), inSatPerByte,
                                      inTargetConf, estimate)
         IN  f.err = "" =>
               /\ height < rec.lockHeight
                    => r.err = "LockNotExpired" /\ r.tx = NoTx
               /\ height >= rec.lockHeight /\ Remainder(rec, f.rate) > 0
                    => r.err = "" /\ r.tx.kind = "refund" /\ r.tx.hash = h
                       /\ r.tx.lock <= height
    /\ \A t \in mempool \cup confirmed : t.kind = "refund" => t.lock <= height

\* A refund has been relayed for one swap, and the refund of another, whose
\* lock height lies ahead, has just failed with LockNotExpired.
C1_Witness ==
    /\ resp = [op |-> "Refund", err |-> "LockNotExpired"]
    /\ \E t \in mempool \cup confirmed : t.kind = "refund"
    /\ \E h \in Stored : height < swapIndex[h].lockHeight

---------------------------------------------------------------------------
(* Redeem and the preimage. *)

\* C2 as stated: a redeem succeeds if and only if the preimage hashes to the
\* hash of the record.
C2_RedeemIffPreimage ==
    \A h \in Stored, p \in PreimagesAll, rate \in FeeRates :
       BuildRedeem(swapIndex[h], p, WalletAddr(1), rate).err = "" <=> Hash(p) = h

\* C2, amended: a redeem with a preimage that does not hash to the hash of
\* the record fails with InvalidPreimage and produces no transaction; with
\* the preimage of the hash it succeeds exactly when the unspent deposit
\* leaves a positive output after the fee, and fails with InsufficientFunds
\* otherwise.  A redeem the service returns reveals the preimage of the hash
\* of a stored swap.
C2_RedeemGatedByPreimage ==
    /\ \A h \in Stored, p \in PreimagesAll, rate \in FeeRates :
         LET rec == swapIndex[h]
             b == BuildRedeem(rec, p, WalletAddr(1), rate)
         IN  /\ Hash(p) # h => b.err = "InvalidPreimage" /\ b.tx = NoTx
             /\ Hash(p) = h /\ Remainder(rec, rate) > 0
                  => b.err = "" /\ b.tx.kind = "redeem" /\ b.tx.preimage = p
             /\ Hash(p) = h /\ Remainder(rec, rate) <= 0
                  => b.err = "InsufficientFunds" /\ b.tx = NoTx
    /\ \A p \in PreimagesAll, inSatPerByte \in SatPerByteAll,
          inTargetConf \in TargetConfAll, estimate \in EstimatorAnswers :
         LET f == DetermineFeePerKw(estimate, inTargetConf,
                                    FeePerKWeight(inSatPerByte))
             r == SubSwapServiceRedeem(p, inSatPerByte, inTargetConf, TRUE,
                                       estimate).resp
         IN  f.err = "" =>
               /\ Hash(p) \notin Stored
                    => r.err = "InvalidPreimage" /\ r.tx = NoTx
               /\ r.err = ""
                    => /\ Hash(p) \in Stored
                       /\ r.tx.kind = "redeem"
                       /\ r.tx.hash = Hash(p)
                       /\ Hash(r.tx.preimage) = r.tx.hash
    /\ \A t \in mempool \cup confirmed :
         t.kind = "redeem" => Hash(t.preimage) = t.hash

\* A swap is funded and a redeem with a preimage of no swap has just failed
\* with InvalidPreimage.
C2_Witness ==
    /\ resp = [op |-> "Redeem", err |-> "InvalidPreimage"]
    /\ \E h \in Stored : Deposited(swapIndex[h]) # <<>>

---------------------------------------------------------------------------
(* Settlement of a deposit. *)

\* The outputs that pay the address of a record, spent or not.
OutputsOf(rec) == {i \in 1..Len(utxos) : utxos[i].addr = rec.address}

\* Every output that pays the address of the record is spent.
Settled(rec) ==
    /\ OutputsOf(rec) # {}
    /\ \A i \in OutputsOf(rec) : Spent(i)

C3_StatePart ==
    /\ \A t \in confirmed, u \in confirmed \cup mempool :
         u # t => u.inputs \cap t.inputs = {}
    /\ \A p \in PreimagesAll, inSatPerByte \in SatPerByteAll,
          inTargetConf \in TargetConfAll, estimate \in EstimatorAnswers :
         LET r == SubSwapServiceRedeem(p, inSatPerByte, inTargetConf, TRUE,
                                       estimate).resp
         IN  /\ r.err = "" => r.tx.inputs # {} /\ \A i \in r.tx.inputs : ~Spent(i)
             /\ Hash(p) \in Stored /\ Settled(swapIndex[Hash(p)])
                  => r.err # "" /\ r.tx = NoTx
    /\ \A inAddress \in AddressInputs, inRefundAddress \in RefundAddressInputs,
          inSatPerByte \in SatPerByteAll, inTargetConf \in TargetConfAll,
          estimate \in EstimatorAnswers :
         LET r == SubSwapClientRefund(inAddress, inRefundAddress, inSatPerByte,
                                      inTargetConf, estimate)
         IN  /\ r.err = "" => r.tx.inputs # {} /\ \A i \in r.tx.inputs : ~Spent(i)
             /\ (\E h \in Stored : /\ inAddress = AddrString(swapIndex[h].address)
                                   /\ Settled(swapIndex[h]))
                  => r.err # "" /\ r.tx = NoTx

C3_StepPart ==
    /\ confirmed \subseteq confirmed'
    /\ \A t \in confirmed' \ confirmed : \A i \in t.inputs : ~Spent(i)

\* C3: of the settlement transactions that spend an output of a deposit at
\* most one is ever confirmed, whatever the order of the redeem and refund
\* attempts; a confirmed settlement stays confirmed, and from then on no
\* transaction that spends one of its outputs is confirmed or stays in the
\* pool, and every redeem or refund of a swap whose outputs are all spent
\* fails.
C3_SettlementExclusive == []C3_StatePart /\ [][C3_StepPart]_vars

\* The deposit of the one swap was redeemed, the lock height has come, and
\* the refund attempted after that has failed.
C3_Witness ==
    /\ Cardinality(Stored) = 1
    /\ \E t \in confirmed : /\ t.kind = "redeem"
                            /\ t.lock <= height
                            /\ Settled(swapIndex[t.hash])
    /\ resp = [op |-> "Refund", err |-> "InsufficientFunds"]

\* The redeem and the refund of a record, both built in the current state.
BothBuilt(h, p, rate) ==
    LET rd == BuildRedeem(swapIndex[h], p, WalletAddr(1), rate)
        rf == BuildRefund(swapIndex[h], ClientDest, rate, height)
    IN  [both |-> rd.err = "" /\ rf.err = "", redeem |-> rd.tx, refund |-> rf.tx]

\* C4 as stated: in no reachable state do a redeem build and a refund build
\* for the same record both return a transaction spending the same outputs.
C4_NeverBothBuilt ==
    \A h \in Stored, p \in PreimagesAll, rate \in FeeRates :
       LET b == BothBuilt(h, p, rate)
       IN  ~(b.both /\ b.redeem.inputs \cap b.refund.inputs # {})

\* C4, amended: a redeem build and a refund build for the same record both
\* return a transaction only once the chain has reached the lock height and
\* with the preimage of the hash, and then the two spend the same outputs;
\* of a redeem and a refund of the same swap that share an output at most
\* one is ever confirmed.
C4_BothBuiltOneConfirmed ==
    /\ \A h \in Stored, p \in PreimagesAll, rate \in FeeRates :
         LET b == BothBuilt(h, p, rate)
         IN  b.both => /\ height >= swapIndex[h].lockHeight
                       /\ Hash(p) = h
                       /\ b.redeem.inputs = b.refund.inputs
                       /\ ~(b.redeem \in confirmed /\ b.refund \in confirmed)
    /\ \A h \in Stored, p \in PreimagesAll, inSatPerByte \in SatPerByteAll,
          inTargetConf \in TargetConfAll, estimate \in EstimatorAnswers :
         LET rd == SubSwapServiceRedeem(p, inSatPerByte, inTargetConf, TRUE,
                                        estimate).resp
             rf == SubSwapClientRefund(AddrString(swapIndex[h].address),
                                       AddrString(ClientDest), inSatPerByte,
                                       inTargetConf, estimate)
         IN  rd.err = "" /\ rf.err = "" /\ Hash(p) = h
               => /\ height >= swapIndex[h].lockHeight
                  /\ rd.tx.inputs = rf.tx.inputs
    /\ \A t \in confirmed, u \in confirmed :
         t.kind = "redeem" /\ u.kind = "refund" /\ t.hash = u.hash
           => t.inputs \cap u.inputs = {}

\* The redeem and the refund of one deposit are in the pool together.
C4_Witness ==
    \E t \in mempool, u \in mempool :
       /\ t.kind = "redeem" /\ u.kind = "refund"
       /\ t.hash = u.hash /\ t.inputs = u.inputs

---------------------------------------------------------------------------
(* The swap index. *)

\* The records a Put can carry for a hash.
RecordsFor(h) ==
    {[hash |-> h, clientPubKey |-> c, servicePubKey |-> v, lockHeight |-> l,
      address |-> DeriveSwap(h, c, v, l, 0).address, creationHeight |-> l - 1] :
        c \in ClientPubKeys, v \in ServicePubKeys,
        l \in 1..NewLockHeight(MaxHeight)}

\* C5: a Put for a hash that has a record fails with DuplicateSwap, whether
\* its record is the stored one or another, and leaves the index as it was;
\* so does the SubSwapServiceInit that makes it.
C5_PutNeverOverwrites ==
    /\ \A h \in Stored : \A rec \in RecordsFor(h) :
         Put(swapIndex, rec) = [err |-> "DuplicateSwap", index |-> swapIndex]
    /\ \A h \in Stored, inPubkey \in ClientPubKeys, serviceKey \in ServicePrivKeys :
         LET r == SubSwapServiceInit(inPubkey, h, serviceKey)
         IN  /\ r.resp.err = "DuplicateSwap"
             /\ r.resp.address = NoString
             /\ r.index = swapIndex
    /\ \A h \in HashInputs, inPubkey \in ClientPubKeys \cup BadPubKeys,
          serviceKey \in ServicePrivKeys :
         LET r == SubSwapServiceInit(inPubkey, h, serviceKey)
         IN  r.resp.err # "" => r.index = swapIndex

\* A swap was stored at an earlier height, so that a new record for its hash
\* differs from the stored one, and the SubSwapServiceInit for the hash has
\* just failed with DuplicateSwap.
C5_Witness ==
    /\ resp = [op |-> "ServiceInit", err |-> "DuplicateSwap"]
    /\ Cardinality(Stored) = 1
    /\ \E h \in Stored : swapIndex[h].creationHeight < height

\* C6: with several SubSwapServiceInit calls in flight, each can run to its
\* end at once, whatever the others are doing; of the calls for one hash at
\* most one succeeds, its record is the one stored, and every other valid
\* one returns DuplicateSwap.
C6_ConcurrentPuts ==
    /\ \A p \in Procs :
         calls[p].st = "inflight"
           => \E serviceKey \in ServicePrivKeys :
                 ENABLED RunSubSwapServiceInit(p, serviceKey)
    /\ \A p \in Procs :
         (/\ calls[p].st = "done"
          /\ calls[p].hash \in Hashes
          /\ calls[p].pubkey \in ClientPubKeys)
         => /\ calls[p].err \in {"", "DuplicateSwap"}
            /\ swapIndex[calls[p].hash] # NoRecord
            /\ calls[p].err = ""
                 => swapIndex[calls[p].hash].clientPubKey = calls[p].pubkey
    /\ \A p \in Procs : \A q \in Procs \ {p} :
         (/\ calls[p].st = "done" /\ calls[q].st = "done"
          /\ calls[p].hash = calls[q].hash)
         => ~(calls[p].err = "" /\ calls[q].err = "")

\* Two calls for the same hash have both returned, one with the swap and
\* the other with DuplicateSwap.
C6_Witness ==
    \E p \in Procs : \E q \in Procs \ {p} :
       /\ calls[p].st = "done" /\ calls[q].st = "done"
       /\ calls[p].hash = calls[q].hash
       /\ calls[p].pubkey # calls[q].pubkey
       /\ calls[p].err = "" /\ calls[q].err = "DuplicateSwap"

\* C7: a record of the index, once there, is never changed nor removed by
\* any step, and the index changes only in a SubSwapServiceInit that
\* succeeds.
C7_RecordsWriteOnce ==
    [][/\ \A h \in Hashes :
            swapIndex[h] # NoRecord => swapIndex'[h] = swapIndex[h]
       /\ swapIndex' # swapIndex
            => resp' = [op |-> "ServiceInit", err |-> ""]]_vars

\* A swap is stored, a settlement of it is confirmed, and a
\* SubSwapClientWatch has just returned.
C7_Witness ==
    /\ Stored # {}
    /\ confirmed # {}
    /\ resp = [op |-> "ClientWatch", err |-> ""]

\* C8: Get fails with NotFound exactly for the hashes no SubSwapServiceInit
\* has succeeded for; for the others it returns the record that call put:
\* the key of the request, the key, lock height and address of the response
\* and the height of the chain at the call.  UnspentAmount by hash fails
\* with NotFound for the same hashes and returns the lock height put.
C8_GetReturnsWhatWasPut ==
    /\ \A h \in HashInputs :
         Get(h).err = "NotFound" <=> (h \notin Hashes \/ putLog[h] = NoPut)
    /\ \A h \in Hashes :
         putLog[h] # NoPut =>
           LET g == Get(h)
           IN  /\ g.err = ""
               /\ g.record.hash = h
               /\ g.record.clientPubKey = putLog[h].pubkey
               /\ g.record.servicePubKey = putLog[h].resp.pubkey
               /\ g.record.lockHeight = putLog[h].resp.lockHeight
               /\ AddrString(g.record.address) = putLog[h].resp.address
               /\ g.record.creationHeight = putLog[h].height
    /\ \A h \in HashInputs :
         LET u == UnspentAmount(NoString, h)
         IN  /\ u.err = "NotFound" <=> (h \notin Hashes \/ putLog[h] = NoPut)
             /\ u.err # "NotFound"
                  => u.err = "" /\ u.lockHeight = putLog[h].resp.lockHeight

\* One swap is stored, its height of creation is past, and UnspentAmount
\* for the hash of another has just failed with NotFound.
C8_Witness ==
    /\ resp = [op |-> "UnspentAmount", err |-> "NotFound"]
    /\ \E h \in Hashes : putLog[h] # NoPut /\ putLog[h].height < height
    /\ \E h \in Hashes : putLog[h] = NoPut

\* C10: for every swap a SubSwapServiceInit has returned, SubSwapClientWatch
\* with the preimage of its hash, the key of the public key of the request
\* and the key and lock height of the response returns the address of the
\* response, at every later height.
C10_RoundTrip ==
    \A h \in Hashes, p \in Preimages, k \in PrivKeys :
       putLog[h] # NoPut /\ Hash(p) = h /\ PubKeyOf(k) = putLog[h].pubkey
         => LET w == SubSwapClientWatch(p, k, putLog[h].resp.pubkey,
                                        putLog[h].resp.lockHeight)
            IN  w.err = "" /\ w.address = putLog[h].resp.address

\* A swap was returned by SubSwapServiceInit, its lock height has come, and
\* a SubSwapClientWatch has just returned an address.
C10_Witness ==
    /\ \E h \in Hashes :
         putLog[h] # NoPut /\ putLog[h].resp.lockHeight <= height
    /\ resp = [op |-> "ClientWatch", err |-> ""]

---------------------------------------------------------------------------
(* The parameters of a swap. *)

\* The parameters DeriveSwap accepts.
ValidParameters(hash, clientPubKey, servicePubKey, lockHeight, currentHeight) ==
    /\ HashLen(hash) = 32
    /\ clientPubKey \in ClientPubKeys
    /\ servicePubKey \in ServicePubKeys
    /\ lockHeight >= 1
    /\ lockHeight > currentHeight

\* C11: DeriveSwap fails with InvalidParameters, and gives neither script
\* nor address, exactly when the hash has not 32 bytes, a key is invalid or
\* the lock height is not positive and beyond the current height of the
\* caller; SubSwapServiceInit and SubSwapClientWatch return that error for
\* such requests, and SubSwapClientWatch succeeds for every other request.
C11_InvalidParameters ==
    /\ \A hash \in {0} \cup HashInputs,
          clientPubKey \in ClientPubKeys \cup BadPubKeys,
          servicePubKey \in ServicePubKeys \cup BadPubKeys,
          lockHeight \in LockHeightInputs, currentHeight \in 0..MaxHeight :
         LET d == DeriveSwap(hash, clientPubKey, servicePubKey, lockHeight,
                             currentHeight)
         IN  IF ValidParameters(hash, clientPubKey, servicePubKey, lockHeight,
                                currentHeight)
             THEN d.err = "" /\ d.script # NoScript /\ d.address # NoAddr
             ELSE /\ d.err = "InvalidParameters"
                  /\ d.script = NoScript /\ d.address = NoAddr
    /\ \A inPreimage \in PreimagesAll, inKey \in PrivKeys,
          inServicePubkey \in ServicePubKeys \cup BadPubKeys,
          inLockHeight \in LockHeightInputs :
         LET w == SubSwapClientWatch(inPreimage, inKey, inServicePubkey,
                                     inLockHeight)
         IN  IF inServicePubkey \in ServicePubKeys /\ inLockHeight >= 1
             THEN w.err = "" /\ w.script # NoScript /\ w.address # NoString
             ELSE /\ w.err = "InvalidParameters"
                  /\ w.script = NoScript /\ w.address = NoString
    /\ \A inPubkey \in ClientPubKeys \cup BadPubKeys, inHash \in HashInputs,
          serviceKey \in ServicePrivKeys :
         LET r == SubSwapServiceInit(inPubkey, inHash, serviceKey)
         IN  r.resp.err = "InvalidParameters"
               <=> (HashLen(inHash) # 32 \/ inPubkey \notin ClientPubKeys)

\* A swap is stored and a SubSwapClientWatch has just failed with
\* InvalidParameters.
C11_Witness ==
    /\ resp = [op |-> "ClientWatch", err |-> "InvalidParameters"]
    /\ Stored # {}

\* C12: every record the index holds has a hash of 32 bytes, which is its
\* key, two valid public keys and a lock height beyond its height of
\* creation.
C12_StoredRecordsValid ==
    \A h \in DOMAIN swapIndex :
       swapIndex[h] # NoRecord
         => /\ swapIndex[h].hash = h
            /\ HashLen(swapIndex[h].hash) = 32
            /\ swapIndex[h].clientPubKey \in ClientPubKeys
            /\ swapIndex[h].servicePubKey \in ServicePubKeys
            /\ swapIndex[h].lockHeight > swapIndex[h].creationHeight

\* Both swaps are stored, at different heights, and the last
\* SubSwapServiceInit, with invalid parameters, has failed.
C12_Witness ==
    /\ Stored = Hashes
    /\ \E g \in Stored, h \in Stored :
         swapIndex[g].creationHeight < swapIndex[h].creationHeight
    /\ resp = [op |-> "ServiceInit", err |-> "InvalidParameters"]

---------------------------------------------------------------------------
(* The amounts of a settlement. *)

\* The unspent outputs that pay the address of a record.
UnspentOf(rec) == {i \in OutputsOf(rec) : ~Spent(i)}

\* The sum of the amounts of a set of outputs of the chain.
RECURSIVE AmountOf(_)
AmountOf(ids) ==
    IF ids = {} THEN 0
    ELSE LET i == CHOOSE j \in ids : TRUE
         IN  utxos[i].amount + AmountOf(ids \ {i})

\* The redeem and the refund the handlers return for a stored swap, with the
\* rate the request resolves to.
Settlements(h, inSatPerByte, inTargetConf, estimate) ==
    LET p == CHOOSE q \in Preimages : Hash(q) = h
    IN  [f |-> DetermineFeePerKw(estimate, inTargetConf, FeePerKWeight(inSatPerByte)),
         redeem |-> SubSwapServiceRedeem(p, inSatPerByte, inTargetConf, TRUE,
                                         estimate).resp,
         refund |-> SubSwapClientRefund(AddrString(swapIndex[h].address),
                                        AddrString(ClientDest), inSatPerByte,
                                        inTargetConf, estimate)]

\* C13: a redeem or refund that succeeds spends all the unspent outputs at
\* the address of the swap and pays its destination the sum of their amounts
\* less the fee, the rate times the weight of the transaction; the fees
\* Refund reports are the inputs less the output; a deposit of 100000 with a
\* fee of 300 pays 99700.
C13_SettlementPaysSumMinusFee ==
    /\ \A h \in Stored, inSatPerByte \in SatPerByteAll,
          inTargetConf \in TargetConfAll, estimate \in EstimatorAnswers :
         LET rec == swapIndex[h]
             s == Settlements(h, inSatPerByte, inTargetConf, estimate)
             total == AmountOf(UnspentOf(rec))
             fee == (s.f.rate * TxWeight(Cardinality(UnspentOf(rec)))) \div 1000
         IN  /\ s.redeem.err = ""
                  => /\ s.redeem.tx.inputs = UnspentOf(rec)
                     /\ s.redeem.tx.out = total - fee
                     /\ s.redeem.tx.dest = WalletAddr(walletAddrs + 1)
             /\ s.refund.err = ""
                  => /\ s.refund.tx.inputs = UnspentOf(rec)
                     /\ s.refund.tx.out = total - fee
                     /\ s.refund.tx.dest = ClientDest
                     /\ s.refund.fees = total - s.refund.tx.out
             /\ s.f.err = "" /\ total = 100000 /\ fee = 300
                  => s.redeem.err = "" /\ s.redeem.tx.out = 99700
    /\ \A t \in mempool \cup confirmed : t.out + t.fee = AmountOf(t.inputs)

\* A settlement of a deposit of 100000 that pays 99700 has been relayed by
\* the call that has just returned it.
C13_Witness ==
    /\ resp.op \in {"Redeem", "Refund"} /\ resp.err = ""
    /\ \E t \in mempool : t.out = 99700 /\ t.fee = 300

\* C14: no settlement has an output of zero or less: when the unspent
\* amount at the address of the swap, were it nothing at all, leaves no
\* positive output after the fee, the redeem and the refund fail with
\* InsufficientFunds and return no transaction.
C14_OutputPositive ==
    /\ \A t \in mempool \cup confirmed : t.out > 0
    /\ \A h \in Stored, rate \in FeeRates, p \in Preimages :
         LET rec == swapIndex[h]
             rd == BuildRedeem(rec, p, WalletAddr(1), rate)
             rf == BuildRefund(rec, ClientDest, rate, rec.lockHeight)
             short == AmountOf(UnspentOf(rec)) <=
                        (rate * TxWeight(Cardinality(UnspentOf(rec)))) \div 1000
         IN  /\ rd.err = "" => rd.tx.out > 0
             /\ rf.err = "" => rf.tx.out > 0
             /\ short /\ Hash(p) = h
                  => rd.err = "InsufficientFunds" /\ rd.tx = NoTx
             /\ short => rf.err = "InsufficientFunds" /\ rf.tx = NoTx
    /\ \A h \in Stored, inSatPerByte \in SatPerByteAll,
          inTargetConf \in TargetConfAll, estimate \in EstimatorAnswers :
         LET rec == swapIndex[h]
             s == Settlements(h, inSatPerByte, inTargetConf, estimate)
             short == AmountOf(UnspentOf(rec)) <=
                        (s.f.rate * TxWeight(Cardinality(UnspentOf(rec)))) \div 1000
         IN  /\ s.redeem.err = "" => s.redeem.tx.out > 0
             /\ s.refund.err = "" => s.refund.tx.out > 0
             /\ s.f.err = "" /\ short
                  => s.redeem.err = "InsufficientFunds" /\ s.redeem.tx = NoTx
             /\ s.f.err = "" /\ short /\ height >= rec.lockHeight
                  => s.refund.err = "InsufficientFunds" /\ s.refund.tx = NoTx

\* The one swap has a deposit, and its redeem has just failed with
\* InsufficientFunds: the fee takes the whole of the deposit.
C14_Witness ==
    /\ resp = [op |-> "Redeem", err |-> "InsufficientFunds"]
    /\ Cardinality(Stored) = 1
    /\ \E h \in Stored : UnspentOf(swapIndex[h]) # {}

\* The rates the fee is compared at.
MonotoneRates == {0, 1, 125, 250, 500, 1000}

\* C15: for the deposit as it stands and rates a <= b, when the builds at
\* both rates succeed the output at b is at most the output at a, and when
\* the build at a fails with InsufficientFunds so does the build at b; for
\* the redeem and for the refund.
C15_FeeMonotone ==
    \A h \in Stored, a \in MonotoneRates, b \in MonotoneRates :
       a <= b =>
         LET rec == swapIndex[h]
             p == CHOOSE q \in Preimages : Hash(q) = h
             rda == BuildRedeem(rec, p, WalletAddr(1), a)
             rdb == BuildRedeem(rec, p, WalletAddr(1), b)
             rfa == BuildRefund(rec, ClientDest, a, rec.lockHeight)
             rfb == BuildRefund(rec, ClientDest, b, rec.lockHeight)
         IN  /\ rda.err = "" /\ rdb.err = "" => rdb.tx.out <= rda.tx.out
             /\ rfa.err = "" /\ rfb.err = "" => rfb.tx.out <= rfa.tx.out
             /\ rda.err = "InsufficientFunds" => rdb.err = "InsufficientFunds"
             /\ rfa.err = "InsufficientFunds" => rfb.err = "InsufficientFunds"
             /\ rda.err \in {"", "InsufficientFunds"}
             /\ rfa.err \in {"", "InsufficientFunds"}

\* A settlement of two outputs has been returned and relayed at a rate that
\* leaves 100 of their 600; at twice the rate the fee exceeds the deposit.
C15_Witness ==
    /\ resp.op \in {"Redeem", "Refund"} /\ resp.err = ""
    /\ \E t \in mempool :
         /\ Cardinality(t.inputs) = 2 /\ t.out = 100
         /\ BuildRedeem(swapIndex[t.hash], CHOOSE q \in Preimages : Hash(q) = t.hash,
                        WalletAddr(1), 500).err = "InsufficientFunds"

---------------------------------------------------------------------------
(* The fee rate of a request. *)

\* The rate a request asks for: its own, per 1000 weight units, when it has
\* one, else the answer of the estimator.
RateAsked(inSatPerByte, estimate) ==
    IF inSatPerByte > 0 THEN 250 * inSatPerByte ELSE estimate

\* C16: a request with a positive rate is served at that rate, converted to
\* the rate per 1000 weight units, whatever the estimator answers; a request
\* without a rate is served at the answer of the estimator for its target,
\* and fails with FeeEstimationUnavailable when the estimator has none; in
\* SubSwapServiceRedeemFees, SubSwapServiceRedeem and SubSwapClientRefund.
C16_FeeResolution ==
    /\ \A inSatPerByte \in SatPerByteAll, inTargetConf \in TargetConfAll,
          estimate \in EstimatorAnswers :
         LET f == DetermineFeePerKw(estimate, inTargetConf,
                                    FeePerKWeight(inSatPerByte))
         IN  IF inSatPerByte = 0 /\ estimate = 0
             THEN f.err = "FeeEstimationUnavailable"
             ELSE f.err = "" /\ f.rate = RateAsked(inSatPerByte, estimate)
    /\ \A h \in HashInputs, inSatPerByte \in SatPerByteAll,
          inTargetConf \in TargetConfAll, estimate \in EstimatorAnswers :
         LET r == SubSwapServiceRedeemFees(h, inSatPerByte, inTargetConf, estimate)
         IN  /\ inSatPerByte = 0 /\ estimate = 0
                  <=> r.err = "FeeEstimationUnavailable"
             /\ r.err = ""
                  => r.amount = (RateAsked(inSatPerByte, estimate)
                                   * TxWeight(Cardinality(UnspentOf(swapIndex[h]))))
                                \div 1000
    /\ \A h \in Stored, inSatPerByte \in SatPerByteAll,
          inTargetConf \in TargetConfAll, estimate \in EstimatorAnswers :
         LET s == Settlements(h, inSatPerByte, inTargetConf, estimate)
             fee == (RateAsked(inSatPerByte, estimate)
                       * TxWeight(Cardinality(UnspentOf(swapIndex[h])))) \div 1000
         IN  /\ inSatPerByte = 0 /\ estimate = 0
                  <=> s.redeem.err = "FeeEstimationUnavailable"
             /\ inSatPerByte = 0 /\ estimate = 0
                  <=> s.refund.err = "FeeEstimationUnavailable"
             /\ s.redeem.err = "" => s.redeem.tx.fee = fee
             /\ s.refund.err = "" => s.refund.fees = fee

\* A swap has a deposit and its SubSwapServiceRedeemFees, without a rate,
\* has just failed for want of an estimate.
C16_Witness ==
    /\ resp = [op |-> "RedeemFees", err |-> "FeeEstimationUnavailable"]
    /\ \E h \in Stored : UnspentOf(swapIndex[h]) # {}

---------------------------------------------------------------------------
(* The scan of an address. *)

\* The outputs a scan lists.
Listed(us) == {us[j].id : j \in 1..Len(us)}

C17_StatePart ==
    /\ \A h \in Stored, fromHeight \in 0..MaxHeight + 1 :
         LET rec == swapIndex[h]
             sc == Scan(rec.address, fromHeight)
             want == {i \in UnspentOf(rec) : utxos[i].height >= fromHeight}
         IN  /\ Listed(sc) = want
             /\ Len(sc) = Cardinality(want)
             /\ \A j \in 1..Len(sc) :
                  /\ sc[j].amount = utxos[sc[j].id].amount
                  /\ sc[j].height = utxos[sc[j].id].height
             /\ \A j \in 1..Len(sc), k \in 1..Len(sc) :
                  j < k => sc[j].height <= sc[k].height
    /\ \A h \in Stored :
         LET byHash == UnspentAmount(NoString, h)
             byAddr == UnspentAmount(AddrString(swapIndex[h].address), 0)
         IN  /\ byHash.err = "" /\ Listed(byHash.utxos) = UnspentOf(swapIndex[h])
             /\ byAddr.err = "" /\ byAddr.utxos = byHash.utxos

C17_StepPart ==
    resp' # resp /\ resp'.op = "UnspentAmount"
      => UNCHANGED <<height, swapIndex, utxos, mempool, confirmed, walletAddrs,
                     calls, putLog>>

\* C17: a scan of an address from a height lists exactly the outputs that
\* pay the address, are unspent and were confirmed at that height or later,
\* each once, with its amount and height, in ascending height; UnspentAmount
\* lists the unspent outputs of a swap from its height of creation on, and
\* changes nothing of the state, so that a second scan lists the same.
C17_ScanExact == []C17_StatePart /\ [][C17_StepPart]_vars

\* An address has an output that was spent and a later one that is unspent,
\* and UnspentAmount has just returned.
C17_Witness ==
    /\ resp = [op |-> "UnspentAmount", err |-> ""]
    /\ \E i \in 1..Len(utxos), j \in 1..Len(utxos) :
         /\ utxos[i].addr = utxos[j].addr
         /\ utxos[i].height < utxos[j].height
         /\ Spent(i) /\ ~Spent(j)

---------------------------------------------------------------------------
(* Errors and effects of the handlers. *)

\* C19: UnspentAmount for an address that no swap owns fails with NotFound.
C19_UnknownAddressNotFound ==
    \A inAddress \in AddressInputs :
       LET d == DecodeAddress(inAddress)
       IN  d.err = "" /\ CreationHeight(d.addr).err = "NotFound"
             => UnspentAmount(inAddress, 0).err = "NotFound"

\* C20: a SubSwapServiceRedeem that fails (no swap for the preimage, no fee
\* rate, nothing to spend, a deposit that does not cover the fee) leaves the
\* wallet, the index, the pool and the chain as they were before the call.
C20_FailedRedeemChangesNothing ==
    [][resp' # resp /\ resp'.op = "Redeem" /\ resp'.err # ""
         => UNCHANGED <<height, swapIndex, utxos, mempool, confirmed,
                        walletAddrs, putLog>>]_vars

\* C23: a SubSwapServiceRedeem that fails with InvalidPreimage has taken no
\* address from the wallet: the preimage is checked before an address is
\* allocated.
C23_PreimageCheckedFirst ==
    \A inPreimage \in PreimagesAll, inSatPerByte \in SatPerByteAll,
       inTargetConf \in TargetConfAll, estimate \in EstimatorAnswers :
       LET r == SubSwapServiceRedeem(inPreimage, inSatPerByte, inTargetConf,
                                     TRUE, estimate)
       IN  r.resp.err = "InvalidPreimage" => r.addrs = walletAddrs

---------------------------------------------------------------------------
(* Equivalences between entry points. *)

\* C24: for every stored swap, UnspentAmount by the hash of the swap and
\* UnspentAmount by its address scan from the same height and return the
\* same lock height, total and list of outputs.
C24_HashAndAddressAgree ==
    \A h \in Stored :
       LET rec == swapIndex[h]
           byHash == UnspentAmount(NoString, h)
           byAddr == UnspentAmount(AddrString(rec.address), 0)
       IN  /\ AddressFromHash(h).err = "" /\ CreationHeight(rec.address).err = ""
           /\ AddressFromHash(h).creationHeight
                = CreationHeight(rec.address).creationHeight
           /\ byHash.err = "" /\ byAddr.err = ""
           /\ byHash.lockHeight = byAddr.lockHeight
           /\ byHash.amount = byAddr.amount
           /\ byHash.utxos = byAddr.utxos

\* A swap with a lock height above zero has an unspent deposit and
\* UnspentAmount has just returned.
C24_Witness ==
    /\ resp = [op |-> "UnspentAmount", err |-> ""]
    /\ \E h \in Stored :
         /\ swapIndex[h].lockHeight > 0
         /\ UnspentOf(swapIndex[h]) # {}
         /\ UnspentAmount(NoString, h).amount > 0

C25_StatePart ==
    \A inPreimage \in Preimages, inSatPerByte \in SatPerByteAll,
       inTargetConf \in TargetConfAll, estimate \in EstimatorAnswers :
       LET fees == SubSwapServiceRedeemFees(Hash(inPreimage), inSatPerByte,
                                            inTargetConf, estimate)
           red == SubSwapServiceRedeem(inPreimage, inSatPerByte, inTargetConf,
                                       TRUE, estimate).resp
       IN  /\ red.err = "" => fees.err = "" /\ fees.amount = red.tx.fee
           /\ fees.err = "" => red.err = ""

C25_StepPart ==
    resp' # resp /\ resp'.op = "RedeemFees"
      => UNCHANGED <<height, swapIndex, utxos, mempool, confirmed, walletAddrs,
                     calls, putLog>>

\* C25: for the same swap, rate, target and unspent outputs, the amount
\* SubSwapServiceRedeemFees returns is the fee of the transaction that
\* SubSwapServiceRedeem builds, the one succeeds when the other does, and
\* SubSwapServiceRedeemFees changes nothing of the state.
C25_RedeemFeesPredictsRedeem == []C25_StatePart /\ [][C25_StepPart]_vars

\* SubSwapServiceRedeemFees has just returned the fee of a swap whose redeem
\* transaction can be built at the estimator's rate.
C25_Witness ==
    /\ resp = [op |-> "RedeemFees", err |-> ""]
    /\ \E p \in Preimages :
         /\ Hash(p) \in Stored
         /\ SubSwapServiceRedeem(p, 0, 6, TRUE, 250).resp.err = ""
         /\ SubSwapServiceRedeemFees(Hash(p), 0, 6, 250).amount > 0

---------------------------------------------------------------------------
(* The notifiers and the streams. *)

RECURSIVE MapSeq(_, _)
\* The notifications that carry the fields of each event of a sequence, in
\* its order.
MapSeq(n, es) ==
    IF es = <<>> THEN <<>>
    ELSE <<IF n = "peer"
           THEN [PubKey |-> Head(es).PeerPubKey, Address |-> Head(es).PeerAddress,
                 Connected |-> Head(es).PeerConnected]
           ELSE [type |-> "BackupEventUpdate"]>> \o MapSeq(n, Tail(es))

\* The events sent since a handler subscribed.
SentSince(h) ==
    LET all == ntfnServer[NotifierOf(h)].sent
    IN  SubSeq(all, clients[h].from + 1, Len(all))

IsPrefix(a, b) == Len(a) <= Len(b) /\ a = SubSeq(b, 1, Len(a))

C21_StatePart ==
    \A h \in Streams :
       /\ streams[h].pc = "select"
            => streams[h].sent \o MapSeq(NotifierOf(h), clients[h].updates)
                 = MapSeq(NotifierOf(h), SentSince(h))
       /\ streams[h].pc = "returned"
            => IsPrefix(streams[h].sent, MapSeq(NotifierOf(h), SentSince(h)))

C21_Delivers ==
    \A h \in Streams :
       []<>(streams[h].pc # "select" \/ clients[h].updates = <<>>)

\* C21: for a handler that is subscribed, the notifications it has sent on
\* its stream followed by those of the updates still in its queue are the
\* events sent since it subscribed, each once, in the order they were sent,
\* with the key, address and flag of the event; what a handler that has
\* returned had sent is the beginning of that sequence; and the queue of a
\* handler that stays subscribed is emptied again and again, so that the
\* handler comes to send the notification of every event sent to it.
C21_FanOutFifo == []C21_StatePart /\ C21_Delivers

\* Both handlers of SubscribePeers are subscribed, the later one after the
\* first event, and both have forwarded all that was sent to them: two
\* different events to the first, the second of them to the other.
C21_Witness ==
    /\ streams["p1"].pc = "select" /\ streams["p2"].pc = "select"
    /\ clients["p1"].from = 0 /\ clients["p2"].from = 1
    /\ Len(streams["p1"].sent) = 2 /\ Len(streams["p2"].sent) = 1
    /\ streams["p1"].sent[1] # streams["p1"].sent[2]

C22_StatePart ==
    /\ \A e \in PeerEvents :
         Running("peer") /\ Len(ntfnServer["peer"].sent) < MaxEvents
           => ENABLED NotifyPeerConnectionChangedEvent(e.PeerPubKey, e.PeerAddress,
                                                       e.PeerConnected)
    /\ \A h \in Streams : clients[h].state = "cancelled" => clients[h].updates = <<>>

C22_StepPart ==
    \A h \in Streams :
       LET n == NotifierOf(h)
       IN  Len(ntfnServer'[n].sent) > Len(ntfnServer[n].sent)
             => /\ clients[h].state = "active"
                     => clients'[h].updates
                          = Append(clients[h].updates,
                                   ntfnServer'[n].sent[Len(ntfnServer'[n].sent)])
                /\ clients[h].state = "cancelled"
                     => clients'[h] = clients[h] /\ streams'[h] = streams[h]

---------------------------------------------------------------------------
(* Start and stop. *)

\* The callers that have swapped and have the body of the call to run.
Pending(what) == {p \in Procs : lifecycle[p] = what}

\* C26: whatever the number and the interleaving of the calls of Start and
\* Stop, the broker is started at most once and stopped at most once by
\* PeerNotifier, and the quit channel of each streaming sub-server is closed
\* at most once: only one caller ever runs the body of each.
C26_StartStopOnce ==
    /\ ntfnServer["peer"].starts + Cardinality(Pending("PeerNotifier.Start"))
         = peerNotifier.started
    /\ ntfnServer["peer"].stops + Cardinality(Pending("PeerNotifier.Stop"))
         = peerNotifier.stopped
    /\ peerNotifier.started <= 1 /\ peerNotifier.stopped <= 1
    /\ \A srv \in SubServers :
         /\ servers[srv].quit + Cardinality(Pending(srv)) = servers[srv].stopped
         /\ servers[srv].started <= 1 /\ servers[srv].stopped <= 1

\* Everything has been started and stopped, and no call is in progress.
C26_Witness ==
    /\ ntfnServer["peer"].starts = 1 /\ ntfnServer["peer"].stops = 1
    /\ \A srv \in SubServers : servers[srv].started = 1 /\ servers[srv].quit = 1
    /\ \A p \in Procs : lifecycle[p] = "idle"

\* C27: once the quit channel of a streaming sub-server is closed, each of
\* its stream handlers that is in its select returns.
C27_StopEndsStreams ==
    \A h \in Streams :
       (servers[SubServerOf(h)].quit > 0 /\ streams[h].pc = "select")
          ~> (streams[h].pc = "returned")

\* C28: a handler that has returned holds no subscription: the one it made
\* is cancelled, and a handler whose subscription failed returned that error
\* and never had one; a subscription that is live belongs to a handler in
\* its select.
C28_NoSubscriptionOutlivesHandler ==
    \A h \in Streams :
       /\ streams[h].pc = "returned"
            => IF streams[h].err = "ServerShuttingDown"
               THEN clients[h].state = "none"
               ELSE clients[h].state = "cancelled"
       /\ clients[h].state = "active" <=> streams[h].pc = "select"
       /\ streams[h].pc = "idle" => clients[h].state = "none"

\* One handler returned on a failed Send, one on the quit signal, and one
\* could not subscribe.
C28_Witness ==
    /\ streams["p1"].pc = "returned" /\ streams["p1"].err = "SendError"
    /\ streams["p2"].pc = "returned" /\ streams["p2"].err = "nil"
    /\ streams["b1"].pc = "returned" /\ streams["b1"].err = "ServerShuttingDown"

C29_StatePart ==
    /\ \A e \in PeerEvents \cup {OtherEvent, BackupEvent}, sendOk \in BOOLEAN :
         LET r == SubscribePeersUpdate(e, sendOk)
         IN  /\ e.type # "PeerConnectionChangedEvent" => r.err = "UnexpectedEvent"
             /\ e.type = "PeerConnectionChangedEvent" /\ ~sendOk => r.err = "SendError"
             /\ e.type = "PeerConnectionChangedEvent" /\ sendOk
                  => r.err = "" /\ r.out = <<PeerNotification(e)>>
             /\ r.err # "" => r.out = <<>>
    /\ \A h \in PeerStreams :
         streams[h].pc = "returned" <=> streams[h].err # ""

C29_StepPart ==
    \A h \in PeerStreams :
       /\ streams[h].pc = "returned" => streams'[h] = streams[h]
       /\ streams[h].pc = "select" /\ streams'[h].pc = "returned"
            => /\ streams'[h].sent = streams[h].sent
               /\ streams'[h].err = "nil" => ClientQuit(h)
               /\ streams'[h].err # "nil" => clients[h].updates # <<>>

\* C29: SubscribePeers returns an error for an update that is not a
\* PeerConnectionChangedEvent and for a Send that fails, without sending;
\* the step that returns sends nothing, a handler that has returned sends
\* nothing more, and nil is returned only on a step taken while the quit
\* channel of the subscription is closed.
C29_StopsAtFirstFailure == []C29_StatePart /\ [][C29_StepPart]_vars

\* A handler returned on a failed Send with a later event sent to it, of
\* which it forwarded nothing.
C29_Witness ==
    /\ streams["p1"].pc = "returned" /\ streams["p1"].err = "SendError"
    /\ streams["p1"].sent = <<>>
    /\ clients["p1"].from = 0 /\ clients["p1"].until = 2

---------------------------------------------------------------------------
(* The channel reserve. *)

\* The scripts whose value is an integer of 64 bits, with that integer for
\* an amount of the channel, and the other scripts by what they give.
Int64Scripts == {"chanAmt // 100", "-chanAmt", "2 ** 63 - 1", "-(2 ** 63)"}
TooBigScripts == {"2 ** 63", "-(2 ** 63) - 1", "10 ** 27"}
FailingScripts == {"chanAmt +"}
NotIntScripts == {"'none'"}
Int64Of(script, chanAmt) ==
    CASE script = "chanAmt // 100" -> [neg |-> FALSE, limbs |-> <<chanAmt \div 100>>]
      [] script = "-chanAmt" -> [neg |-> chanAmt > 0, limbs |-> <<chanAmt>>]
      [] script = "2 ** 63 - 1" -> [neg |-> FALSE, limbs |-> <<9, 223372036, 854775807>>]
      [] script = "-(2 ** 63)" -> [neg |-> TRUE, limbs |-> <<9, 223372036, 854775808>>]

\* What the claim says of a call.
ReserveAsClaimed(build, script, chanAmt, defaultReserve, r) ==
    LET default == [neg |-> FALSE, limbs |-> <<defaultReserve>>]
    IN  /\ build = "default" => r.reserve = default /\ r.err = ""
        /\ build = "dynamic" =>
             /\ script = "" => r.reserve = default /\ r.err = ""
             /\ script \in FailingScripts => r.reserve = default /\ r.err # ""
             /\ script \in NotIntScripts => r.reserve = default
             /\ script \in TooBigScripts => r.reserve = default
             /\ script \in Int64Scripts
                  => r.reserve = Int64Of(script, chanAmt) /\ r.err = ""
             /\ r.reserve # default => script \in Int64Scripts

\* C30: requiredRemoteChanReserve returns the default reserve in the default
\* build, and in the dynamic build for an empty script, for a script whose
\* evaluation fails, with the error, for a value that is not an int and for
\* an int that does not fit in 64 bits; for a script whose value is an int
\* of 64 bits it returns that int and no error.
C30_ReserveDefaultUnlessInt64 ==
    /\ \A build \in Builds, script \in ChanReserveScripts, chanAmt \in ChanAmts,
          defaultReserve \in DefaultReserves :
         ReserveAsClaimed(build, script, chanAmt, defaultReserve,
                          RequiredRemoteChanReserveOf(build, script, chanAmt,
                                                      defaultReserve))
    /\ reserve # NoReserve
         => ReserveAsClaimed(reserve.build, reserve.script, reserve.chanAmt,
                             reserve.defaultReserve, reserve)

\* The dynamic build has just returned the default for a script whose value
\* is 2^63.
C30_Witness ==
    /\ reserve.build = "dynamic" /\ reserve.script = "2 ** 63"
    /\ reserve.reserve = BigOf(reserve.defaultReserve)
    /\ reserve.err = "ErrRange"

===========================================================================
